---------------------------- MODULE Spec2Model ----------------------------
(***************************************************************************)
(* Verification model of src/piohmm.py (class HMM): the personalized       *)
(* input-output hidden Markov model trained by EM.                         *)
(*                                                                         *)
(* Numbers.  TLC has integers only, so every real quantity is an exact     *)
(* rational <<n, d>> in lowest terms with d > 0.  A quantity the code      *)
(* keeps in the log domain (log pi, log A, log-likelihoods, alpha, beta,   *)
(* gamma, xi, the scaling factors) is represented by the rational whose    *)
(* logarithm it is: log-domain "+" is Times, "-" is Over, logsumexp is a   *)
(* sum, log 0 = -infinity is the rational 0.  The two non-real floats are  *)
(* PInf = <<1, 0>> (+infinity) and NaN = <<0, 0>>.  Floating-point         *)
(* rounding is not modelled.                                               *)
(*                                                                         *)
(* Observations are scalar (d = 1).  The Gaussian density is transcendental*)
(* and is quantised to three levels of the Mahalanobis distance (Kernel).  *)
(***************************************************************************)
EXTENDS Integers, Sequences, FiniteSets, TLC

(***************************************************************************)
(* Exact rational arithmetic.                                              *)
(***************************************************************************)
Abs(x) == IF x < 0 THEN -x ELSE x

RECURSIVE Gcd(_, _)
Gcd(a, b) == IF b = 0 THEN a ELSE Gcd(b, a % b)

Norm(n, d) ==
    LET g == Gcd(Abs(n), Abs(d)) IN
    IF d = 0 THEN <<(IF n > 0 THEN 1 ELSE 0), 0>>
    ELSE IF d < 0 THEN <<(-n) \div g, (-d) \div g>>
    ELSE <<n \div g, d \div g>>

Q(n, d) == Norm(n, d)
Zero == <<0, 1>>
One == <<1, 1>>
PInf == <<1, 0>>
NaN == <<0, 0>>

IsNaN(a) == a = NaN
IsPInf(a) == a = PInf
IsReal(a) == a[2] # 0

Plus(a, b) ==
    IF IsNaN(a) \/ IsNaN(b) THEN NaN
    ELSE IF IsPInf(a) \/ IsPInf(b) THEN PInf
    ELSE LET g == Gcd(a[2], b[2]) IN
         Norm(a[1] * (b[2] \div g) + b[1] * (a[2] \div g), a[2] * (b[2] \div g))

Neg(a) == IF IsReal(a) THEN <<-a[1], a[2]>> ELSE NaN

Minus(a, b) == Plus(a, Neg(b))

\* Product of two reals, cross-reduced first so that intermediates stay small.
Times(a, b) ==
    IF IsNaN(a) \/ IsNaN(b) THEN NaN
    ELSE IF IsPInf(a) \/ IsPInf(b)
         THEN (IF a = Zero \/ b = Zero THEN NaN ELSE PInf)
    ELSE IF a[1] = 0 \/ b[1] = 0 THEN Zero
    ELSE LET g1 == Gcd(Abs(a[1]), b[2])
             g2 == Gcd(Abs(b[1]), a[2])
         IN <<(a[1] \div g1) * (b[1] \div g2), (a[2] \div g2) * (b[2] \div g1)>>

\* a / b as IEEE division does it on non-negative operands and on reals:
\* x/0 = +inf for x > 0, 0/0 = NaN.
Over(a, b) ==
    IF IsNaN(a) \/ IsNaN(b) THEN NaN
    ELSE IF IsPInf(b) THEN (IF IsPInf(a) THEN NaN ELSE Zero)
    ELSE IF IsPInf(a) THEN PInf
    ELSE IF b[1] = 0 THEN (IF a[1] = 0 THEN NaN ELSE PInf)
    ELSE Times(a, Norm(b[2], b[1]))

\* n1/d1 < n2/d2 for d1, d2 > 0, by integer parts and then the reciprocals of
\* the fractional parts, so that no product is formed.
RECURSIVE LessFrac(_, _, _, _)
LessFrac(n1, d1, n2, d2) ==
    IF n1 \div d1 # n2 \div d2 THEN n1 \div d1 < n2 \div d2
    ELSE IF n2 % d2 = 0 THEN FALSE
    ELSE IF n1 % d1 = 0 THEN TRUE
    ELSE LessFrac(d2, n2 % d2, d1, n1 % d1)

Less(a, b) ==
    /\ ~IsNaN(a) /\ ~IsNaN(b)
    /\ IF IsPInf(a) THEN FALSE
       ELSE IF IsPInf(b) THEN TRUE
       ELSE LessFrac(a[1], a[2], b[1], b[2])

Leq(a, b) == ~IsNaN(a) /\ ~IsNaN(b) /\ ~Less(b, a)

RECURSIVE SumSeq(_)
SumSeq(s) == IF s = <<>> THEN Zero ELSE Plus(Head(s), SumSeq(Tail(s)))

RECURSIVE ProdSeq(_)
ProdSeq(s) == IF s = <<>> THEN One ELSE Times(Head(s), ProdSeq(Tail(s)))


\* a name that is not bound (a local not assigned, a missing file, None)
Unbound == [unbound |-> TRUE]
IsUnbound(x) == "unbound" \in DOMAIN x
\* m_sample = None, n_sample = None
NoSample == <<>>
\* no exception, and the exception of a given type about a given name
NoErr == [type |-> "none"]
Raise(type, what) == [type |-> type, what |-> what]

(***************************************************************************)
(* Log-domain values.  Log(p) is p.log(); Exp(l) is l.exp().               *)
(***************************************************************************)
Log(p) == IF IsNaN(p) \/ p[1] < 0 THEN NaN ELSE p
Exp(l) == l
LogAdd(a, b) == Times(a, b)
LogSub(a, b) == Over(a, b)
LogSumExp(s) == SumSeq(s)

MaskMulKeep(x, m) == x

\* x * m for a log-domain x and a 0/1 mask m: (+-inf) * 0 and NaN * 0 are NaN,
\* finite * 0 is 0, that is log 1.
MaskMul(x, m) ==
    IF m = 1 THEN x
    ELSE IF IsReal(x) /\ x[1] > 0 THEN One
    ELSE NaN

\* x * m for a real x and a 0/1 mask m.
RealMask(x, m) ==
    IF m = 1 THEN x
    ELSE IF IsReal(x) THEN Zero
    ELSE NaN

\* TLC evaluates [x \in S |-> e] lazily, once per application; Force makes it
\* a table, so that an array is computed once.
Force(f) == f @@ <<>>
Sq(x) == Times(x, x)
FromInt(i) == <<i, 1>>

(***************************************************************************)
(* HMM.log_gaussian, diagonal path and full path for d = 1.  The residual  *)
(* is computed as in the source; the density of the squared Mahalanobis    *)
(* distance md = r^2 / var is quantised: md < 1 -> 2, md < 4 -> 1,         *)
(* otherwise 1/2 (positive and non-increasing in md like the Gaussian).    *)
(***************************************************************************)
Kernel(md) ==
    IF ~IsReal(md) \/ md[1] < 0 THEN NaN
    ELSE IF Less(md, One) THEN Q(2, 1)
    ELSE IF Less(md, Q(4, 1)) THEN One
    ELSE Q(1, 2)

Residual(self, params, samples, k, i, t) ==
    LET r0 == Minus(FromInt(self.data[i][t]), params.mu[k])
        r1 == IF self.io
              THEN LET V == params.V
                       rv == IF self.state_io
                             THEN Minus(r0, Times(V[k], FromInt(self.ins[i][t])))
                             ELSE Minus(r0, Times(V[1], FromInt(self.ins[i][t])))
                   IN IF self.perso_io
                      THEN Minus(rv, Times(samples.m_sample[i], FromInt(self.ins[i][t])))
                      ELSE rv
              ELSE r0
    IN IF self.perso THEN Minus(r1, samples.n_sample[i]) ELSE r1

\* var is positive definite (d = 1): torch.cholesky succeeds.
IsPD(v) == IsReal(v) /\ v[1] > 0

LogGaussian(self, params, samples) ==
    Force([k \in 1..self.k |-> Force([i \in 1..self.n |-> Force([t \in 1..self.t |->
        IF ~IsPD(params.var[k]) THEN NaN
        ELSE Kernel(Over(Sq(Residual(self, params, samples, k, i, t)), params.var[k]))])])])

\* log_gaussian for d = 1 as the terms of its sum: quad, the term of the
\* squared Mahalanobis distance, and the coefficients with which log var and
\* log(2 pi) enter.  The full path is -0.5 * (md + log_norm_constant +
\* log_det); the diagonal path is -0.5 * (log var + r^2 / var), to which
\* log_norm_constant is then added.
LogGaussianTerms(self, params, samples) ==
    Force([k \in 1..self.k |-> Force([i \in 1..self.n |-> Force([t \in 1..self.t |->
        LET md == Over(Sq(Residual(self, params, samples, k, i, t)), params.var[k])
        IN IF self.full_cov
           THEN [quad |-> Times(Q(-1, 2), md), logvar |-> Q(-1, 2), log2pi |-> Q(-1, 2)]
           ELSE [quad |-> Times(Q(-1, 2), md), logvar |-> Q(-1, 2), log2pi |-> One]])])])

\* HMM.get_likelihoods: the log-density times the observation mask.
GetLikelihoodsNoMask(self, params, samples) == LogGaussian(self, params, samples)

GetLikelihoods(self, params, samples) ==
    LET lg == LogGaussian(self, params, samples) IN
    Force([k \in 1..self.k |-> Force([i \in 1..self.n |-> Force([t \in 1..self.t |->
        MaskMul(lg[k][i][t], self.om[i][t])])])])

\* get_likelihoods(params, log = False): log_likelihoods.exp_() turns the
\* array into densities, and these are multiplied by the observation mask.
GetLikelihoodsProb(self, params, samples) ==
    LET lg == LogGaussian(self, params, samples) IN
    Force([k \in 1..self.k |-> Force([i \in 1..self.n |-> Force([t \in 1..self.t |->
        RealMask(Exp(lg[k][i][t]), self.om[i][t])])])])

(***************************************************************************)
(* HMM.forward for one subject, before the time mask: a sequence over t of *)
(* [a |-> alpha-hat[., i, t], s |-> scaling[i, t]].                        *)
(***************************************************************************)
FwdFirst(self, lik, params, i) ==
    LET a == Force([k \in 1..self.k |-> LogAdd(Log(params.pi[k]), lik[k][i][1])])
        s == LogSumExp(a)
    IN [a |-> Force([k \in 1..self.k |-> LogSub(a[k], s)]), s |-> s]

FwdNextTransposed(self, lik, params, i, t, asample) ==
    LET a == Force([k \in 1..self.k |->
                LogAdd(lik[k][i][t],
                       LogSumExp(Force([j \in 1..self.k |->
                                    LogAdd(asample[j], Log(params.A[k][j]))])))])
        s == LogSumExp(a)
    IN [a |-> Force([k \in 1..self.k |-> LogSub(a[k], s)]), s |-> s]

FwdNext(self, lik, params, i, t, asample) ==
    LET a == Force([k \in 1..self.k |->
                LogAdd(lik[k][i][t],
                       LogSumExp(Force([j \in 1..self.k |->
                                    LogAdd(asample[j], Log(params.A[j][k]))])))])
        s == LogSumExp(a)
    IN [a |-> Force([k \in 1..self.k |-> LogSub(a[k], s)]), s |-> s]

RECURSIVE FwdUpTo(_, _, _, _, _)
FwdUpTo(self, lik, params, i, t) ==
    IF t = 1 THEN <<FwdFirst(self, lik, params, i)>>
    ELSE LET prev == FwdUpTo(self, lik, params, i, t - 1)
         IN Append(prev, FwdNext(self, lik, params, i, t, prev[t - 1].a))

\* forward: [alpha |-> k x n x t, scaling_factor |-> n x t], time-masked.
Forward(self, lik, params) ==
    LET raw == Force([i \in 1..self.n |-> FwdUpTo(self, lik, params, i, self.t)]) IN
    [alpha |-> Force([k \in 1..self.k |-> Force([i \in 1..self.n |-> Force([t \in 1..self.t |->
                    MaskMul(raw[i][t].a[k], self.tm[i][t])])])]),
     scaling_factor |-> Force([i \in 1..self.n |-> Force([t \in 1..self.t |->
                    MaskMul(raw[i][t].s, self.tm[i][t])])])]

(***************************************************************************)
(* HMM.backward for one subject: BwdFrom(.., t) is <<beta[., i, t], ...,   *)
(* beta[., i, T]>>.                                                        *)
(***************************************************************************)
BwdStepNoScale(self, lik, params, sf, i, t, bsample) ==
    Force([k \in 1..self.k |->
        MaskMul(LogSumExp(Force([j \in 1..self.k |->
                    LogAdd(LogAdd(bsample[j], Log(params.A[k][j])), lik[j][i][t + 1])])),
                self.tm[i][t + 1])])

BwdStep(self, lik, params, sf, i, t, bsample) ==
    Force([k \in 1..self.k |->
        MaskMul(LogSub(LogSumExp(Force([j \in 1..self.k |->
                    LogAdd(LogAdd(bsample[j], Log(params.A[k][j])), lik[j][i][t + 1])])),
                       sf[i][t + 1]),
                self.tm[i][t + 1])])

RECURSIVE BwdFrom(_, _, _, _, _, _)
BwdFrom(self, lik, params, sf, i, t) ==
    IF t = self.t THEN <<Force([k \in 1..self.k |-> One])>>
    ELSE LET nxt == BwdFrom(self, lik, params, sf, i, t + 1)
         IN <<BwdStep(self, lik, params, sf, i, t, nxt[1])>> \o nxt

Backward(self, lik, params, sf) ==
    LET raw == Force([i \in 1..self.n |-> BwdFrom(self, lik, params, sf, i, 1)]) IN
    Force([k \in 1..self.k |-> Force([i \in 1..self.n |-> Force([t \in 1..self.t |-> raw[i][t][k]])])])

(***************************************************************************)
(* HMM.e_step, the part that computes e_out (the variational step on the   *)
(* instance is the action's business).                                     *)
(***************************************************************************)
\* e_out and the locals of e_step, from the likelihood and the two passes.
EStepRecord(self, params, lik, fw, beta) ==
    LET alpha == fw.alpha
        sf == fw.scaling_factor
        gamma == Force([k \in 1..self.k |-> Force([i \in 1..self.n |-> Force([t \in 1..self.t |->
                    LogAdd(alpha[k][i][t], beta[k][i][t])])])])
        xi == Force([a \in 1..self.k |-> Force([b \in 1..self.k |-> Force([i \in 1..self.n |->
                Force([t \in 1..(self.t - 1) |->
                    LogAdd(alpha[a][i][t],
                           LogSub(LogAdd(beta[b][i][t + 1],
                                         LogAdd(lik[b][i][t + 1], Log(params.A[a][b]))),
                                  sf[i][t + 1]))])])])])
        pX == ProdSeq(Force([x \in 1..(self.n * self.t) |->
                 sf[((x - 1) \div self.t) + 1][((x - 1) % self.t) + 1]]))
    IN [xi |-> xi, gamma |-> gamma, pX |-> pX, likelihood |-> lik, alpha |-> alpha,
        beta |-> beta, scaling_factor |-> sf]

\* The likelihood, the forward pass and the backward pass are each bound to
\* their value, so each is computed once, in the order e_step computes them.
EStepLocals(self, params, samples) ==
    CHOOSE loc \in UNION { UNION { { EStepRecord(self, params, lik, fw, beta) :
                 beta \in {Backward(self, lik, params, fw.scaling_factor)} } :
                 fw \in {Forward(self, lik, params)} } :
                 lik \in {GetLikelihoods(self, params, samples)} } : TRUE

\* The e_out dictionary e_step returns.
EOut(loc) == [xi |-> loc.xi, gamma |-> loc.gamma, pX |-> loc.pX]

\* The locals of e_step that e_out does not carry.
ELocals(loc) ==
    [likelihood |-> loc.likelihood, alpha |-> loc.alpha, beta |-> loc.beta,
     scaling_factor |-> loc.scaling_factor]

(***************************************************************************)
(* HMM.m_step for d = 1.  The configurations with a prior on V or on mu    *)
(* are modelled as far as the fixtures take them: where the flag lacks the *)
(* effect it needs, m_step ends with an exception (MStepError).            *)
(***************************************************************************)
\* sum over subjects and time of f[i][t]
SumNT(self, f) ==
    SumSeq(Force([x \in 1..(self.n * self.t) |->
        f[((x - 1) \div self.t) + 1][((x - 1) % self.t) + 1]]))

\* torch.clamp(x, min = lo); NaN stays NaN
ClampMin(x, lo) == IF IsNaN(x) THEN NaN ELSE IF Less(x, lo) THEN lo ELSE x

\* the variance ridge added on the full-covariance path
Ridge == Q(1, 10000)

\* The exception m_step ends with, NoErr if it returns.
MStepError(self) ==
    \* var/munoise: munoise is unpacked only with perso
    IF self.priorMu /\ ~self.perso THEN Raise("UnboundLocalError", "munoise")
    \* einsum 'ijk,ijkl->il' of r = self.data, which has three dimensions
    ELSE IF self.state_io /\ ~self.io THEN Raise("RuntimeError", "einsum")
    \* einsum of V for vnoise: V is unpacked only with io
    ELSE IF self.priorV /\ ~self.io THEN Raise("UnboundLocalError", "V")
    ELSE NoErr

\* (gamma.exp()) * self.om
MaskedGamma(self, e_out) ==
    Force([k \in 1..self.k |-> Force([i \in 1..self.n |-> Force([t \in 1..self.t |->
        RealMask(Exp(e_out.gamma[k][i][t]), self.om[i][t])])])])

\* r of the mean update: the data less the input and personalized effects
MuResidual(self, params, samples, k, i, t) ==
    LET x == FromInt(self.data[i][t])
        u == FromInt(self.ins[i][t])
    IN IF self.io
       THEN LET r1 == IF self.state_io THEN Minus(x, Times(params.V[k], u))
                      ELSE Minus(x, Times(params.V[1], u))
                r2 == IF self.perso_io THEN Minus(r1, Times(samples.m_sample[i], u)) ELSE r1
            IN IF self.perso THEN Minus(r2, samples.n_sample[i]) ELSE r2
       ELSE IF self.perso THEN Minus(x, samples.n_sample[i]) ELSE x

MStepMu(self, g, N_k, params, samples) ==
    Force([k \in 1..self.k |->
        Over(SumNT(self, Force([i \in 1..self.n |-> Force([t \in 1..self.t |->
                Times(g[k][i][t],
                      RealMask(MuResidual(self, params, samples, k, i, t), self.om[i][t]))])])),
             Plus(N_k[k], self.eps))])

\* r of the update of V: the data less the new mean and the personalized effects
VResidual(self, mu, samples, k, i, t) ==
    LET r0 == Minus(FromInt(self.data[i][t]), mu[k])
        r1 == IF self.perso_io
              THEN Minus(r0, Times(samples.m_sample[i], FromInt(self.ins[i][t])))
              ELSE r0
    IN IF self.perso THEN Minus(r1, samples.n_sample[i]) ELSE r1

MStepV(self, e_out, g, mu, samples) ==
    LET num(k) == SumNT(self, Force([i \in 1..self.n |-> Force([t \in 1..self.t |->
                    Times(g[k][i][t],
                          RealMask(Times(VResidual(self, mu, samples, k, i, t),
                                         FromInt(self.ins[i][t])), self.om[i][t]))])]))
    IN IF self.state_io
       THEN Force([k \in 1..self.k |->
                Over(num(k),
                     SumNT(self, Force([i \in 1..self.n |-> Force([t \in 1..self.t |->
                        Times(g[k][i][t], Sq(FromInt(self.ins[i][t])))])])))])
       ELSE <<Over(SumSeq(Force([k \in 1..self.k |-> num(k)])),
                   SumSeq(Force([k \in 1..self.k |->
                        SumNT(self, Force([i \in 1..self.n |-> Force([t \in 1..self.t |->
                            Times(RealMask(Exp(e_out.gamma[k][i][t]), self.tm[i][t]),
                                  Sq(FromInt(self.ins[i][t] * self.om[i][t])))])]))])))>>

\* r of the variance update, times the observation mask
VarResidual(self, mu, V, samples, k, i, t) ==
    LET r0 == Minus(FromInt(self.data[i][t]), mu[k])
        u == FromInt(self.ins[i][t])
        r1 == IF self.io
              THEN LET rv == IF self.state_io THEN Minus(r0, Times(V[k], u))
                             ELSE Minus(r0, Times(V[1], u))
                   IN IF self.perso_io THEN Minus(rv, Times(samples.m_sample[i], u)) ELSE rv
              ELSE r0
        r2 == IF self.perso THEN Minus(r1, samples.n_sample[i]) ELSE r1
    IN RealMask(r2, self.om[i][t])

MStepVar(self, g, N_k, mu, V, samples) ==
    Force([k \in 1..self.k |->
        LET v == Over(SumNT(self, Force([i \in 1..self.n |-> Force([t \in 1..self.t |->
                        Times(g[k][i][t], Sq(VarResidual(self, mu, V, samples, k, i, t)))])])),
                      Plus(N_k[k], self.eps))
        IN IF self.full_cov THEN Plus(v, Ridge) ELSE ClampMin(v, self.min_var)])

\* 1/n/d * sum_i sample_i^2
SampleNoise(self, sample) ==
    Over(SumSeq(Force([i \in 1..self.n |-> Sq(sample[i])])), FromInt(self.n))

MStepPi(self, N_k1) ==
    LET tot == SumSeq(N_k1)
    IN Force([k \in 1..self.k |-> Plus(Over(N_k1[k], tot), self.eps)])

\* logsumexp over n, t of masked_select(xi[a, b], om[:, 1:])
XiMass(self, e_out, a, b) ==
    SumSeq(Force([x \in 1..(self.n * (self.t - 1)) |->
        LET i == ((x - 1) \div (self.t - 1)) + 1
            t == ((x - 1) % (self.t - 1)) + 1
        IN IF self.om[i][t + 1] = 1 THEN Exp(e_out.xi[a][b][i][t]) ELSE Zero]))

MStepA(self, e_out) ==
    Force([a \in 1..self.k |->
        LET row == Force([b \in 1..self.k |-> XiMass(self, e_out, a, b)])
            tot == SumSeq(row)
        IN Force([b \in 1..self.k |->
                IF self.ut /\ b < a THEN Exp(LogSub(row[b], tot))
                ELSE Plus(Exp(LogSub(row[b], tot)), self.eps)])])

MStep(self, e_out, params, samples) ==
    LET g == MaskedGamma(self, e_out)
        N_k1 == Force([k \in 1..self.k |-> SumSeq(Force([i \in 1..self.n |-> g[k][i][1]]))])
        N_k == Force([k \in 1..self.k |-> SumNT(self, g[k])])
        mu == MStepMu(self, g, N_k, params, samples)
        V == IF self.io THEN MStepV(self, e_out, g, mu, samples) ELSE Unbound
        var == MStepVar(self, g, N_k, mu, V, samples)
    IN [mu |-> mu, var |-> var, pi |-> MStepPi(self, N_k1), A |-> MStepA(self, e_out)]
       @@ (IF self.io THEN [V |-> V] ELSE <<>>)
       @@ (IF self.io /\ self.perso_io
           THEN [mnoise |-> SampleNoise(self, samples.m_sample)] ELSE <<>>)
       @@ (IF self.perso THEN [nnoise |-> SampleNoise(self, samples.n_sample)] ELSE <<>>)

(***************************************************************************)
(* The exceptions of log_gaussian and of e_step.                           *)
(***************************************************************************)
\* torch.cholesky(var) fails: some state's covariance is not positive definite
CholeskyFails(params) == \E k \in DOMAIN params.var : ~IsPD(params.var[k])

\* The exception log_gaussian ends with, NoErr if it returns.  On the full
\* path a failed cholesky is caught, the handler prints var, mu, params['A']
\* and params['V'], and the code after the handler reads the unassigned L.
LogGaussianError(self, params, samples) ==
    IF self.full_cov /\ CholeskyFails(params) /\ "V" \notin DOMAIN params
    THEN Raise("KeyError", "V")
    ELSE IF self.io /\ "V" \notin DOMAIN params THEN Raise("KeyError", "V")
    ELSE IF self.io /\ self.state_io /\ Len(params.V) # self.k
    THEN Raise("IndexError", "V")               \* V[:, None, None, :] of a 1-d V
    ELSE IF self.io /\ self.perso_io /\ samples.m_sample = NoSample
    THEN Raise("TypeError", "m_sample")         \* m_sample[None, :, None, :] of None
    ELSE IF self.perso /\ samples.n_sample = NoSample
    THEN Raise("TypeError", "n_sample")         \* n_sample[None, :, None, :] of None
    ELSE IF self.full_cov /\ CholeskyFails(params)
    THEN Raise("UnboundLocalError", "L")
    ELSE NoErr

\* The exception the variational step of e_step ends with (variational_obj,
\* exp_log_joint, get_exp_data), NoErr if it returns or is not taken.
VariationalError(self, params) ==
    IF ~(self.perso_io \/ self.perso) THEN NoErr
    ELSE IF self.io /\ ~self.state_io
    THEN Raise("IndexError", "V")               \* get_exp_data: V[:, None, None, :]
    ELSE IF self.perso_io /\ ~self.io
    THEN Raise("AttributeError", "ins")         \* get_exp_data: self.ins
    ELSE IF self.perso /\ "nnoise" \notin DOMAIN params THEN Raise("KeyError", "nnoise")
    ELSE IF self.perso_io /\ "mnoise" \notin DOMAIN params THEN Raise("KeyError", "mnoise")
    ELSE IF self.priorV /\ "vnoise" \notin DOMAIN params THEN Raise("KeyError", "vnoise")
    ELSE IF self.priorV /\ "mnoise" \notin DOMAIN params THEN Raise("KeyError", "mnoise")
    ELSE IF self.priorMu /\ "munoise" \notin DOMAIN params THEN Raise("KeyError", "munoise")
    ELSE IF self.priorMu /\ "nnoise" \notin DOMAIN params THEN Raise("KeyError", "nnoise")
    ELSE NoErr

(***************************************************************************)
(* HMM.calc_pX and HMM.est_test_pX.  A result is the tensor's shape and    *)
(* its entries.  draws[s] are the samples of pass s of the sampling loop   *)
(* and weights[s][i] the importance weight of subject i in that pass (log  *)
(* prior density minus log posterior density of the draw; 0 when the model *)
(* has no personalized effect).                                            *)
(***************************************************************************)
SampledPX(self, params, draws, weights) ==
    LET num == Len(draws)
        px == Force([s \in 1..num |->
                CHOOSE r \in { Force([i \in 1..self.n |->
                                  LogAdd(ProdSeq(fw.scaling_factor[i]), weights[s][i])]) :
                               fw \in {Forward(self, GetLikelihoods(self, params, draws[s]),
                                               params)} } : TRUE])
    IN [shape |-> <<self.n>>,
        value |-> Force([i \in 1..self.n |->
                    LogSub(LogSumExp(Force([s \in 1..num |-> px[s][i]])), Log(FromInt(num)))])]

CalcPX(self, params, mode, draws, weights) ==
    IF mode = "fixSample"
    THEN [shape |-> <<self.n, self.t>>,
          value |-> Forward(self, GetLikelihoods(self, params, draws[1]), params).scaling_factor]
    ELSE SampledPX(self, params, draws, weights)

\* est_test_pX: get_likelihoods has no parameter fixSample
EstTestPXError == Raise("TypeError", "fixSample")

\* exp_log_joint's first statements: logA = A.log() is a new tensor, and
\* logA[torch.isinf(logA)] = 0 writes to it; params['A'] keeps its values.
ExpLogJointTensors(params) ==
    [params |-> params,
     logA |-> Force([i \in DOMAIN params.A |-> Force([j \in DOMAIN params.A[i] |->
                IF Log(params.A[i][j]) = Zero THEN One ELSE Log(params.A[i][j])])])]

\* The params e_step returns: the dict it was given, whose tensors the
\* likelihood, the two passes and the variational objective only read.
EStepParamsAfter(self, params) ==
    IF self.perso_io \/ self.perso THEN ExpLogJointTensors(params).params ELSE params

MStepInputAfterInPlace(self, e_out, params, samples) ==
    [params EXCEPT !.var = MStep(self, e_out, params, samples).var]

\* The dict m_step was given, after m_step: every statement of m_step binds a
\* local to a new tensor, none writes to a tensor of params.
MStepInputAfter(self, e_out, params, samples) == params

EStepError(self, params, samples) ==
    IF LogGaussianError(self, params, samples) # NoErr
    THEN LogGaussianError(self, params, samples)
    ELSE VariationalError(self, params)

(***************************************************************************)
(* HMM.viterbi and HMM.predict_sequence.  States are numbered from 1 here  *)
(* (psi and mps hold the source's index plus one); psi[., ., 1] is never   *)
(* written and keeps its initial 0, here state 1.                          *)
(***************************************************************************)
ArgMaxLast(s) ==
    CHOOSE j \in 1..Len(s) :
        /\ \A m \in 1..Len(s) : ~Less(s[j], s[m])
        /\ \A m \in (j + 1)..Len(s) : Less(s[m], s[j])

\* torch.max / torch.argmax over a sequence: the first maximal index.
ArgMax(s) ==
    CHOOSE j \in 1..Len(s) :
        /\ \A m \in 1..Len(s) : ~Less(s[j], s[m])
        /\ \A m \in 1..(j - 1) : Less(s[m], s[j])

VitFirst(self, lik, params, i) ==
    [omega |-> Force([k \in 1..self.k |-> LogAdd(Log(params.pi[k]), lik[k][i][1])]),
     psi |-> Force([k \in 1..self.k |-> 1])]

VitNextTransposed(self, lik, params, i, t, prev) ==
    LET cand == Force([k \in 1..self.k |-> Force([j \in 1..self.k |->
                    LogAdd(Log(params.A[k][j]), prev[j])])])
        psi == Force([k \in 1..self.k |-> ArgMax(cand[k])])
    IN [omega |-> Force([k \in 1..self.k |-> LogAdd(lik[k][i][t], cand[k][psi[k]])]),
        psi |-> psi]

\* one step of the recursion: logA[:, :, None] + omega[:, None, :, i-1] is
\* indexed [from, to, subject] and maximized over its first axis
VitNext(self, lik, params, i, t, prev) ==
    LET cand == Force([k \in 1..self.k |-> Force([j \in 1..self.k |->
                    LogAdd(Log(params.A[j][k]), prev[j])])])
        psi == Force([k \in 1..self.k |-> ArgMax(cand[k])])
    IN [omega |-> Force([k \in 1..self.k |-> LogAdd(lik[k][i][t], cand[k][psi[k]])]),
        psi |-> psi]

RECURSIVE VitUpTo(_, _, _, _, _)
VitUpTo(self, lik, params, i, t) ==
    IF t = 1 THEN <<VitFirst(self, lik, params, i)>>
    ELSE LET prev == VitUpTo(self, lik, params, i, t - 1)
         IN Append(prev, VitNext(self, lik, params, i, t, prev[t - 1].omega))

\* The backtrack: <<mps[i, t], ..., mps[i, T]>>.
RECURSIVE BacktrackOffByOne(_, _, _)
BacktrackOffByOne(tr, T, t) ==
    IF t = T THEN <<ArgMax(tr[T].omega)>>
    ELSE LET nxt == BacktrackOffByOne(tr, T, t + 1)
         IN <<tr[t].psi[nxt[1]]>> \o nxt

RECURSIVE Backtrack(_, _, _)
Backtrack(tr, T, t) ==
    IF t = T THEN <<ArgMax(tr[T].omega)>>
    ELSE LET nxt == Backtrack(tr, T, t + 1)
         IN <<tr[t + 1].psi[nxt[1]]>> \o nxt

Viterbi(self, lik, params) ==
    LET tr == Force([i \in 1..self.n |-> VitUpTo(self, lik, params, i, self.t)]) IN
    [mps |-> Force([i \in 1..self.n |-> Backtrack(tr[i], self.t, 1)]),
     omega |-> Force([k \in 1..self.k |-> Force([i \in 1..self.n |->
                    Force([t \in 1..self.t |-> tr[i][t].omega[k]])])]),
     psi |-> Force([k \in 1..self.k |-> Force([i \in 1..self.n |->
                    Force([t \in 1..self.t |-> tr[i][t].psi[k]])])])]

PredictSequence(self, params, samples) ==
    Viterbi(self, GetLikelihoods(self, params, samples), params)

(***************************************************************************)
(* HMM.initialize_model, and the pieces of learn_model and load_model that *)
(* read and write files.                                                   *)
(***************************************************************************)
\* the uniform prior and the uniform or upper-triangular transition matrix
UniformPi(K) == [k \in 1..K |-> Q(1, K)]
UniformA(K) == [i \in 1..K |-> [j \in 1..K |-> Q(1, K)]]
TriuA(K) == [i \in 1..K |-> [j \in 1..K |-> IF j >= i THEN Q(1, K - (i - 1)) ELSE Zero]]

\* the cluster centres KMeans(n_clusters = k) may return for k points: the
\* points in any order
KMeansCentres(self) ==
    {<<FromInt(self.data[1][1]), FromInt(self.data[1][2])>>,
     <<FromInt(self.data[1][2]), FromInt(self.data[1][1])>>}

\* 0.5 (R + R^T) + d I for R = 0.1 * rand, d = 1: a value in [1, 1.1)
FullCovInits == {One, Q(17, 16)}
\* the constructor's var_fill
IniVar == Q(1, 2)

\* HMM.initialize_model with the random draws mu (k-means) and v (rand)
InitializeModel(self, mu, v) ==
    [mu |-> mu,
     var |-> [k \in 1..self.k |-> IF self.full_cov THEN v ELSE IniVar],
     pi |-> UniformPi(self.k),
     A |-> IF self.ut THEN TriuA(self.k) ELSE UniformA(self.k)]
    @@ (IF self.io
        THEN [V |-> IF self.state_io THEN [k \in 1..self.k |-> Zero] ELSE <<Zero>>]
        ELSE <<>>)
    @@ (IF self.io /\ self.perso_io THEN [mnoise |-> Q(1, 2)] ELSE <<>>)
    @@ (IF self.io /\ self.priorV THEN [vnoise |-> One] ELSE <<>>)
    @@ (IF self.perso THEN [nnoise |-> Q(1, 2)] ELSE <<>>)
    @@ (IF self.perso /\ self.priorMu THEN [munoise |-> One] ELSE <<>>)

\* the first key of names that the file lacks, NoErr if it has all
RECURSIVE MissingKey(_, _)
MissingKey(file, names) ==
    IF names = <<>> THEN NoErr
    ELSE IF Head(names) \notin DOMAIN file THEN Raise("KeyError", Head(names))
    ELSE MissingKey(file, Tail(names))

\* the keys learn_model(load_model = True) reads, in the order it reads them
LearnModelLoadKeys == <<"A", "mu", "var", "pi", "V">>

\* the first attribute of names that the instance lacks, NoErr if it has all
RECURSIVE MissingAttr(_, _)
MissingAttr(self, names) ==
    IF names = <<>> THEN NoErr
    ELSE IF Head(names) \notin DOMAIN self THEN Raise("AttributeError", Head(names))
    ELSE MissingAttr(self, Tail(names))

\* the attributes the checkpoint reads, in the order the dictionary reads them
CheckpointAttrs == <<"elbo", "ent", "ell", "ll", "mu_hat", "L_hat">>

\* the dictionary torch.save is given
Checkpoint(self, params) ==
    [params |-> params, elbo |-> self.elbo, entropy |-> self.ent, exp_ll |-> self.ell,
     log_prob |-> self.ll, mi |-> self.mu_hat, Li |-> self.L_hat]

(***************************************************************************)
(* The variational posterior and HMM.change_data.  A variational tensor is *)
(* kept as its first dimension n, the generation gen it was created in and *)
(* how it was filled; the optimizer as its number of steps and the         *)
(* generation of the tensors it was built over.  A packed vector (tril_vec,*)
(* tril) also carries ver, the number of in-place updates it has had; the  *)
(* factor unpacked from it (L_hat, N_hat) carries the ver it was read at.  *)
(***************************************************************************)
\* zeros(n, d, d) with the (lower triangle | diagonal) mask set to the vector
Unpack(packed) ==
    [n |-> packed.n, gen |-> packed.gen, fill |-> "unpacked", ver |-> packed.ver]

Posterior(flags, n, gen, fill) ==
    [optimizer |-> [steps |-> 0, gen |-> gen]]
    @@ (IF flags.perso_io
        THEN [mu_hat |-> [n |-> n, gen |-> gen, fill |-> fill],
              tril_vec |-> [n |-> n, gen |-> gen, fill |-> "randn", ver |-> 0],
              L_hat |-> Unpack([n |-> n, gen |-> gen, fill |-> "randn", ver |-> 0])]
        ELSE <<>>)
    @@ (IF flags.perso
        THEN [nu_hat |-> [n |-> n, gen |-> gen, fill |-> fill],
              tril |-> [n |-> n, gen |-> gen, fill |-> "randn", ver |-> 0],
              N_hat |-> Unpack([n |-> n, gen |-> gen, fill |-> "randn", ver |-> 0])]
        ELSE <<>>)

\* optimizer.step() on the tensors the optimizer holds, then the packed
\* vectors written back into the factors
OptimizerStep(self) ==
    LET s1 == [self EXCEPT !.optimizer.steps = @ + 1]
        s2 == IF self.perso_io THEN [s1 EXCEPT !.tril_vec.ver = @ + 1] ELSE s1
        s3 == IF self.perso THEN [s2 EXCEPT !.tril.ver = @ + 1] ELSE s2
        s4 == IF self.perso_io THEN [s3 EXCEPT !.L_hat = Unpack(s3.tril_vec)] ELSE s3
    IN IF self.perso THEN [s4 EXCEPT !.N_hat = Unpack(s4.tril)] ELSE s4

AllOnes(n, t) == [i \in 1..n |-> [j \in 1..t |-> 1]]

\* The noise scales change_data reads from its params argument, in order;
\* the exception of the first that cannot be read, NoErr if none.
ResetVIError(self, new) ==
    LET keys == (IF self.perso_io THEN <<"mnoise">> ELSE <<>>)
                \o (IF self.perso THEN <<"nnoise">> ELSE <<>>)
    IN IF ~new.has_params THEN Raise("TypeError", "params")   \* params=[]
       ELSE MissingKey(new.params, keys)

ResetVIKeepOptimizer(self, new) ==
    IF ~(self.perso_io \/ self.perso) THEN [self |-> self, err |-> NoErr]
    ELSE [self |-> [elbo |-> <<>>, optimizer |-> self.optimizer]
                   @@ Posterior(self, self.n, self.optimizer.gen + 1, "prior") @@ self,
          err |-> NoErr]

\* the reset_VI block of change_data, on the instance with the new data
ResetVI(self, new) ==
    IF ~(self.perso_io \/ self.perso) THEN [self |-> self, err |-> NoErr]
    ELSE IF ResetVIError(self, new) # NoErr
    THEN [self |-> [elbo |-> <<>>] @@ self, err |-> ResetVIError(self, new)]
    ELSE [self |-> [elbo |-> <<>>]
                   @@ Posterior(self, self.n, self.optimizer.gen + 1, "prior") @@ self,
          err |-> NoErr]

\* change_data: the instance it leaves and the exception it ends with
ChangeDataResult(self, new) ==
    LET n == Len(new.data)
        t == Len(new.data[1])
        s1 == [data |-> new.data, n |-> n, t |-> t] @@ self
        s2 == (IF self.io THEN [ins |-> new.ins] ELSE <<>>)
              @@ [tm |-> IF new.has_TM THEN new.TM ELSE AllOnes(n, t),
                  om |-> IF new.has_OM THEN new.OM ELSE AllOnes(n, t)]
              @@ s1
    IN IF self.io /\ ~new.has_ins THEN [self |-> s1, err |-> Raise("AttributeError", "to")]
       ELSE IF new.reset_VI THEN ResetVI(s2, new)
       ELSE [self |-> s2, err |-> NoErr]

(***************************************************************************)
(* State.                                                                  *)
(***************************************************************************)
VARIABLES
    pc,         \* control point of the call in flight
    self,       \* the HMM instance: flags, data, masks, histories
    params,     \* the local `params` of the call in flight
    samples,    \* the local `samples` (m_sample, n_sample)
    e_out,      \* the local `e_out`, Unbound until an E-step assigned it
    call,       \* the arguments of the call in flight
    iter,       \* the loop variable `_` of learn_model
    prev_cost,  \* the local `prev_cost`
    err,        \* the exception that ended the call, NoErr if none
    ret,        \* the value the call returned, Unbound if none
    obs,        \* what the properties look back at: locals of the last e_step,
                \* the steps taken by the iteration in flight
    twin,       \* a second run on an instance of its own (two-run claims)
    disk        \* the file a save wrote or a load reads, Unbound if none

vars == <<pc, self, params, samples, e_out, call, iter, prev_cost, err, ret, obs,
          twin, disk>>


(***************************************************************************)
(* Bounds of the fixtures.                                                 *)
(***************************************************************************)
\* The numbers of states of the fixtures (the brute-force claims fix K <= 3).
StateCounts == {2, 3}
\* The largest number of time steps of a forward-backward fixture.
MaxT == 4
\* The largest number of time steps of a Viterbi fixture.
VitMaxT == 5

(***************************************************************************)
(* Parameter fixtures: parameters a caller passes in.                      *)
(***************************************************************************)
SkewPi(K) == [k \in 1..K |-> IF k = 1 THEN Q(3, 4) ELSE Q(1, 4 * (K - 1))]
StickyA(K) == [i \in 1..K |-> [j \in 1..K |-> IF i = j THEN Q(3, 4) ELSE Q(1, 4 * (K - 1))]]

GridMu(K) == [k \in 1..K |-> FromInt(k - 1)]
UnitVar(K) == [k \in 1..K |-> One]

PlainFlags ==
    [full_cov |-> FALSE, io |-> FALSE, state_io |-> FALSE, perso_io |-> FALSE,
     perso |-> FALSE, priorV |-> FALSE, priorMu |-> FALSE, ut |-> FALSE,
     VI_diag |-> FALSE]

\* All 0/1 sequences of length T, and the prefix-contiguous ones.
BitSeqs(T) == [1..T -> {0, 1}]
PrefixMask(T, len) == [t \in 1..T |-> IF t <= len THEN 1 ELSE 0]
ValidLen(m) == Cardinality({t \in DOMAIN m : m[t] = 1})

(***************************************************************************)
(* SpecFB: one e_step on bounded fixtures (one subject; subjects are       *)
(* independent in forward/backward).  The time mask is prefix-contiguous;  *)
(* the observation mask misses no visit, one visit, or every visit.        *)
(***************************************************************************)
FBSelf(K, T, flags, data, ins, tm, om) ==
    flags @@ [k |-> K, n |-> 1, t |-> T, data |-> <<data>>, ins |-> <<ins>>,
              tm |-> <<tm>>, om |-> <<om>>, eps |-> Zero]

FBBase(K, p, a) == [mu |-> GridMu(K), var |-> UnitVar(K), pi |-> p, A |-> a]

\* The fixtures: flags, parameters and the personalized-effect sample.  The
\* input-output fixture has a shared V, the personalized one a baseline shift.
FBFixtures(K) ==
    {[v |-> "plain", p |-> FBBase(K, p, a)] :
        p \in {UniformPi(K), SkewPi(K)}, a \in {UniformA(K), TriuA(K), StickyA(K)}}
    \cup {[v |-> "io", p |-> FBBase(K, UniformPi(K), TriuA(K)) @@ [V |-> <<One>>]],
          [v |-> "perso", p |-> FBBase(K, SkewPi(K), StickyA(K))]}

FBFlags(f, K) ==
    [PlainFlags EXCEPT !.ut = (f.p.A = TriuA(K)), !.io = (f.v = "io"),
                       !.perso = (f.v = "perso")]

FBSamples(f) ==
    [m_sample |-> NoSample, n_sample |-> IF f.v = "perso" THEN <<One>> ELSE NoSample]

ObsMasks(T) ==
    {[t \in 1..T |-> IF t = miss THEN 0 ELSE 1] : miss \in 0..T} \cup {[t \in 1..T |-> 0]}

InitFB ==
    \E K \in StateCounts, T \in 1..MaxT :
    \E data \in [1..T -> {0, 2}], len \in 0..T, om \in ObsMasks(T), f \in FBFixtures(K) :
        /\ self = FBSelf(K, T, FBFlags(f, K), data, [t \in 1..T |-> t % 2],
                         PrefixMask(T, len), om)
        /\ params = f.p
        /\ samples = FBSamples(f)
        /\ pc = "fb_start"
        /\ e_out = Unbound /\ obs = Unbound
        /\ call = Unbound /\ iter = 0 /\ prev_cost = PInf
        /\ err = NoErr /\ ret = Unbound
        /\ twin = Unbound /\ disk = Unbound

FB_EStep ==
    /\ pc = "fb_start"
    /\ LET loc == EStepLocals(self, params, samples) IN
          /\ e_out' = EOut(loc)
          /\ obs' = ELocals(loc)
    /\ pc' = "fb_done"
    /\ UNCHANGED <<self, params, samples, call, iter, prev_cost, err, ret, twin, disk>>

\* get_likelihoods(params, log = ...) called on the fixture
FB_GetLikelihoods ==
    /\ pc = "fb_start"
    /\ \E log \in BOOLEAN :
        ret' = [log |-> log,
                value |-> IF log THEN GetLikelihoods(self, params, samples)
                          ELSE GetLikelihoodsProb(self, params, samples),
                terms |-> LogGaussianTerms(self, params, samples)]
    /\ pc' = "fb_lik"
    /\ UNCHANGED <<self, params, samples, e_out, call, iter, prev_cost, err, obs, twin, disk>>

\* calc_pX(params, num_samples, importance_sampling, ..., fixSample) and
\* est_test_pX(params) called on the fixture; a personalized model is given
\* the variational means and factors the mode reads.
FB_EvalPX ==
    /\ pc = "fb_start"
    /\ \E fn \in {"calc_pX", "est_test_pX"}, mode \in {"importance_sampling", "fixSample", "default"},
          num \in 1..2 :
        /\ fn = "est_test_pX" => (mode = "default" /\ num = 1)
        /\ mode = "fixSample" => num = 1
        /\ \E ds \in [1..num -> IF self.perso /\ mode # "fixSample"
                                 THEN {samples, [samples EXCEPT !.n_sample = <<Zero>>]}
                                 ELSE {samples}],
              ws \in [1..num -> [1..self.n -> IF self.perso /\ mode = "importance_sampling"
                                              THEN {Log(One), Log(Q(1, 2))}
                                              ELSE {Log(One)}]] :
            /\ call' = [fn |-> fn, mode |-> mode, num_samples |-> num, draws |-> ds,
                        weights |-> ws]
            /\ IF fn = "est_test_pX"
               THEN /\ err' = EstTestPXError
                    /\ pc' = "fb_raised"
                    /\ ret' = ret
               ELSE /\ err' = err
                    /\ pc' = "fb_px"
                    /\ ret' = CalcPX(self, params, mode, ds, ws)
    /\ UNCHANGED <<self, params, samples, e_out, iter, prev_cost, obs, twin, disk>>

NextFB == FB_EStep \/ FB_GetLikelihoods \/ FB_EvalPX

SpecFB == InitFB /\ [][NextFB]_vars

\* C1: after e_step, at every valid step (TimeMask = 1) the exponentiated
\* responsibilities exp(gamma[., i, t]) sum to 1 over the states, with and
\* without the upper-triangular transition matrix and missing observations.
C1_GammaSumsToOne ==
    pc = "fb_done" =>
        \A i \in 1..self.n : \A t \in 1..self.t :
            self.tm[i][t] = 1 =>
                SumSeq(Force([k \in 1..self.k |-> Exp(e_out.gamma[k][i][t])])) = One

\* An e_step ran on an upper-triangular model with a missing visit inside the
\* valid span and padding after it, and the responsibilities are not uniform.
C1_Witness ==
    /\ pc = "fb_done" /\ self.ut /\ self.k = 3 /\ self.t = 4
    /\ self.tm[1] = <<1, 1, 1, 0>> /\ self.om[1] = <<1, 0, 1, 1>>
    /\ e_out.gamma[1][1][2] # e_out.gamma[2][1][2]
    /\ e_out.gamma[3][1][3] # Zero

\* C17: calc_pX in each of its modes and est_test_pX complete and return a
\* tensor indexed by subject only; when no personalized effect is sampled,
\* entry i is the sum over time of subject i's scaling factors.
C17_EvidencePerSubject ==
    pc \in {"fb_px", "fb_raised"} =>
        /\ pc = "fb_px"
        /\ ret.shape = <<self.n>>
        /\ ~self.perso =>
              \A i \in 1..self.n :
                  ret.value[i] = ProdSeq(Forward(self, GetLikelihoods(self, params, samples),
                                                 params).scaling_factor[i])

(***************************************************************************)
(* Brute force: the sum over all K^L state paths z_1..z_L of               *)
(* pi[z_1] lik[z_1,1] prod_t A[z_{t-1},z_t] lik[z_t,t], by walking the     *)
(* tree of paths (w is the weight of the prefix that ends in z at t).      *)
(***************************************************************************)
RECURSIVE PathWalk(_, _, _, _, _, _, _)
PathWalk(lik, p, i, L, t, z, w) ==
    IF t = L THEN w
    ELSE SumSeq(Force([z2 \in 1..Len(p.pi) |->
            PathWalk(lik, p, i, L, t + 1, z2,
                     Times(w, Times(p.A[z][z2], lik[z2][i][t + 1])))]))

PathSum(lik, p, i, L) ==
    SumSeq(Force([z \in 1..Len(p.pi) |->
            PathWalk(lik, p, i, L, 1, z, Times(p.pi[z], lik[z][i][1]))]))

\* C2: for every subject the sum over time of the scaling factors of the
\* forward pass is the log of the brute-force sum over all state paths (of
\* the subject's length: its number of valid steps, T when nothing is padded).
C2_EvidenceIsPathSum ==
    pc = "fb_done" =>
        \A i \in 1..self.n :
            ValidLen(self.tm[i]) >= 1 =>
                ProdSeq(obs.scaling_factor[i])
                    = Log(PathSum(Force([k \in 1..self.k |-> Force([j \in 1..self.n |->
                                    Force([t \in 1..self.t |-> Exp(obs.likelihood[k][j][t])])])]),
                                  params, i, ValidLen(self.tm[i])))

\* The forward pass ran on an unpadded 3-state, 4-step fixture with a
\* triangular transition matrix, and the evidence is not trivial.
C2_Witness ==
    /\ pc = "fb_done" /\ self.k = 3 /\ self.t = 4
    /\ self.tm[1] = <<1, 1, 1, 1>> /\ self.om[1] = <<1, 1, 1, 1>>
    /\ params.A = TriuA(3) /\ params.pi = SkewPi(3)
    /\ self.data[1] = <<0, 2, 0, 2>>
    /\ ProdSeq(obs.scaling_factor[1]) # One
    /\ e_out.pX = ProdSeq(obs.scaling_factor[1])

\* C14: in what get_likelihoods returns, an entry at a step the observation
\* mask hides is a factor of 1 (0 in the log domain) for every state, in
\* both output modes, and an entry at an observed step is the emission density.
C14_MaskedLikelihoodIsNeutral ==
    pc = "fb_lik" =>
        \A k \in 1..self.k : \A i \in 1..self.n : \A t \in 1..self.t :
            LET factor == IF ret.log THEN Exp(ret.value[k][i][t]) ELSE ret.value[k][i][t]
            IN IF self.om[i][t] = 0 THEN factor = One
               ELSE factor = Exp(LogGaussian(self, params, samples)[k][i][t])

(***************************************************************************)
(* SpecVit: one predict_sequence on bounded fixtures.  viterbi does not    *)
(* read the time mask.                                                     *)
(***************************************************************************)
InitVit ==
    \E K \in StateCounts, T \in 1..VitMaxT :
    \E data \in [1..T -> {0, 2}], om \in ObsMasks(T), f \in FBFixtures(K) :
        /\ self = FBSelf(K, T, FBFlags(f, K), data, [t \in 1..T |-> t % 2],
                         PrefixMask(T, T), om)
        /\ params = f.p
        /\ samples = FBSamples(f)
        /\ pc = "vit_start"
        /\ e_out = Unbound /\ obs = Unbound
        /\ call = Unbound /\ iter = 0 /\ prev_cost = PInf
        /\ err = NoErr /\ ret = Unbound
        /\ twin = Unbound /\ disk = Unbound

Vit_PredictSequence ==
    /\ pc = "vit_start"
    /\ ret' = PredictSequence(self, params, samples)
    /\ obs' = [likelihood |-> GetLikelihoods(self, params, samples)]
    /\ pc' = "vit_done"
    /\ UNCHANGED <<self, params, samples, e_out, call, iter, prev_cost, err, twin, disk>>

NextVit == Vit_PredictSequence

SpecVit == InitVit /\ [][NextVit]_vars

\* The joint log-score of a state path z of subject i (as the rational whose
\* log it is): log pi[z_1] + loglik[z_1,1] + sum_t (log A[z_{t-1},z_t] + loglik[z_t,t]).
RECURSIVE PathScore(_, _, _, _, _)
PathScore(lik, p, i, z, t) ==
    IF t = 1 THEN Times(p.pi[z[1]], lik[z[1]][i][1])
    ELSE Times(PathScore(lik, p, i, z, t - 1),
               Times(p.A[z[t - 1]][z[t]], lik[z[t]][i][t]))

\* The best score over all K^T paths, by walking the tree of paths.
MaxOf(s) == s[ArgMax(s)]

RECURSIVE BestWalk(_, _, _, _, _, _, _)
BestWalk(lik, p, i, T, t, z, w) ==
    IF t = T THEN w
    ELSE MaxOf(Force([z2 \in 1..Len(p.pi) |->
            BestWalk(lik, p, i, T, t + 1, z2,
                     Times(w, Times(p.A[z][z2], lik[z2][i][t + 1])))]))

BestScore(lik, p, i, T) ==
    MaxOf(Force([z \in 1..Len(p.pi) |->
            BestWalk(lik, p, i, T, 1, z, Times(p.pi[z], lik[z][i][1]))]))

\* C3: for every subject the path viterbi returns scores at least as high as
\* every other state path of length T (K <= 3, T <= 5).
C3_ViterbiIsBest ==
    pc = "vit_done" =>
        \A i \in 1..self.n :
            /\ \A t \in 1..self.t : ret.mps[i][t] \in 1..self.k
            /\ Leq(BestScore(obs.likelihood, params, i, self.t),
                   PathScore(obs.likelihood, params, i, ret.mps[i], self.t))

\* viterbi decoded a 3-state, 5-step fixture into a path that changes state,
\* under a triangular transition matrix and with a missing visit.
C3_Witness ==
    /\ pc = "vit_done" /\ self.k = 3 /\ self.t = 5
    /\ params.A = TriuA(3) /\ self.om[1] = <<1, 1, 0, 1, 1>>
    /\ ret.mps[1][1] # ret.mps[1][5]
    /\ ret.mps[1][2] # ret.mps[1][4]

(***************************************************************************)
(* SpecM: one e_step followed by one m_step, run twice: on an instance and *)
(* on a twin whose data differ from it at one step the observation mask    *)
(* hides (when the mask hides none, the twin has the same data).           *)
(***************************************************************************)
\* <<n, t>> of most fixtures
MShapes == {<<1, 3>>, <<2, 2>>}
MConfigs == {"plain", "ut", "io", "state_io", "perso", "perso_io", "full_cov"}
MEps == {Zero, Q(1, 8)}
\* the variance floor the fixtures configure (the constructor's min_var)
FixtureMinVar == Q(1, 16)

\* (the personalized input effect comes with a state-dependent V: the
\* variational objective indexes V by state)
MFlags(c) ==
    [PlainFlags EXCEPT !.ut = (c = "ut"), !.io = (c \in {"io", "state_io", "perso_io"}),
                       !.state_io = (c \in {"state_io", "perso_io"}),
                       !.perso_io = (c = "perso_io"),
                       !.perso = (c = "perso"), !.full_cov = (c = "full_cov")]

MParams(c, K) ==
    [mu |-> GridMu(K), var |-> UnitVar(K), pi |-> UniformPi(K),
     A |-> IF c = "ut" THEN TriuA(K) ELSE UniformA(K)]
    @@ (IF c \in {"state_io", "perso_io"} THEN [V |-> [k \in 1..K |-> One]]
        ELSE IF c = "io" THEN [V |-> <<One>>] ELSE <<>>)

MSamples(c, N) ==
    [m_sample |-> IF c = "perso_io" THEN [i \in 1..N |-> FromInt(i % 2)] ELSE NoSample,
     n_sample |-> IF c = "perso" THEN [i \in 1..N |-> FromInt(i % 2)] ELSE NoSample]

MSelf(c, K, N, T, data, om, eps) ==
    MFlags(c) @@ [k |-> K, n |-> N, t |-> T, data |-> data,
                  ins |-> [i \in 1..N |-> [t \in 1..T |-> (i + t) % 2]],
                  tm |-> [i \in 1..N |-> [t \in 1..T |-> 1]], om |-> om,
                  eps |-> eps, min_var |-> FixtureMinVar]

\* the observation masks: nothing missing, or one visit <<i, t>> missing; some
\* visit after the first stays observed (masked_select of no element of xi is
\* not modelled)
MMasks(N, T) ==
    {[i \in 1..N |-> [t \in 1..T |-> IF <<i, t>> = miss THEN 0 ELSE 1]] :
        miss \in {<<0, 0>>} \cup {m \in (1..N) \X (1..T) : m[2] = 1 \/ N * (T - 1) > 1}}

\* the data with the value at every masked step replaced (0 <-> 2)
FlipMasked(data, om) ==
    [i \in DOMAIN data |-> [t \in DOMAIN data[i] |->
        IF om[i][t] = 0 THEN 2 - data[i][t] ELSE data[i][t]]]

\* <<configuration, k, <<n, t>>>> of the fixtures: the sizes at which the exact
\* rationals of the update stay within the integers of the checker
MCases ==
    ({"plain", "state_io", "perso"} \X StateCounts \X MShapes)
    \cup ({"io", "perso_io"} \X {2} \X MShapes)
    \cup {<<"ut", 2, <<1, 3>>>>, <<"ut", 3, <<1, 2>>>>, <<"full_cov", 2, <<1, 3>>>>}

InitM ==
    \E case \in MCases, eps \in MEps :
    LET c == case[1]
        K == case[2]
        sh == case[3] IN
    \E data \in [1..sh[1] -> [1..sh[2] -> {0, 2}]], om \in MMasks(sh[1], sh[2]) :
        /\ self = MSelf(c, K, sh[1], sh[2], data, om, eps)
        /\ params = MParams(c, K)
        /\ samples = MSamples(c, sh[1])
        /\ twin = [self |-> MSelf(c, K, sh[1], sh[2], FlipMasked(data, om), om, eps),
                   params |-> MParams(c, K), samples |-> MSamples(c, sh[1]),
                   e_out |-> Unbound]
        /\ pc = "m_start"
        /\ e_out = Unbound /\ obs = Unbound
        /\ call = Unbound /\ iter = 0 /\ prev_cost = PInf
        /\ err = NoErr /\ ret = Unbound /\ disk = Unbound

M_EStep ==
    /\ pc = "m_start"
    /\ e_out' = EOut(EStepLocals(self, params, samples))
    /\ twin' = [twin EXCEPT !.e_out = EOut(EStepLocals(twin.self, twin.params, twin.samples))]
    /\ pc' = "m_estep"
    /\ UNCHANGED <<self, params, samples, call, iter, prev_cost, err, ret, obs, disk>>

M_MStep ==
    /\ pc = "m_estep"
    /\ params' = MStep(self, e_out, params, samples)
    /\ twin' = [twin EXCEPT !.params = MStep(twin.self, twin.e_out, twin.params, twin.samples)]
    /\ pc' = "m_done"
    /\ UNCHANGED <<self, samples, e_out, call, iter, prev_cost, err, ret, obs, disk>>

NextM == M_EStep \/ M_MStep

SpecM == InitM /\ [][NextM]_vars

\* C4: after m_step every row of the returned A sums to 1 and, with the
\* upper-triangular constraint, every entry below the diagonal is exactly 0,
\* for every configured eps, eps > 0 included.
C4_RowsSumToOneAndTriangular ==
    pc = "m_done" =>
        \A a \in 1..self.k :
            /\ SumSeq(params.A[a]) = One
            /\ self.ut => \A b \in 1..(a - 1) : params.A[a][b] = Zero

\* C6: two runs that differ only in the data at a step the observation mask
\* hides have the same e_step outputs (gamma, xi, log-evidence) and the same
\* parameters after the following m_step.
C6_MaskedDataIsIgnored ==
    /\ pc \in {"m_estep", "m_done"} => e_out = twin.e_out
    /\ pc = "m_done" => params = twin.params

\* Both runs finished an m_step on data that differ at the masked second
\* visit of the first subject of a state-dependent input-output model, and
\* the update moved the means, the variances and V.
C6_Witness ==
    /\ pc = "m_done" /\ self.state_io /\ self.k = 3 /\ self.n = 2
    /\ self.om[1][2] = 0 /\ self.data[1][2] # twin.self.data[1][2]
    /\ params.mu # GridMu(3) /\ params.var # UnitVar(3)
    /\ params.V # [k \in 1..3 |-> One]
    /\ e_out = twin.e_out /\ params = twin.params

(***************************************************************************)
(* SpecPad: the same two steps on subjects of different lengths, run on an *)
(* instance and on a twin that differs from it only at the padded steps    *)
(* (TimeMask = 0): in the data there, or in the observation mask there.    *)
(***************************************************************************)
PadConfigs == {"plain", "io", "state_io"}
PadVariants == {"data", "om"}

\* the time masks of n subjects of which one at least is padded
PadTimeMasks(N, T) ==
    {tm \in [1..N -> {PrefixMask(T, len) : len \in 1..T}] :
        \E i \in 1..N : ValidLen(tm[i]) < T}

\* x with the value at every padded step replaced by f of it
AtPadded(x, tm, f(_)) ==
    [i \in DOMAIN x |-> [t \in DOMAIN x[i] |-> IF tm[i][t] = 0 THEN f(x[i][t]) ELSE x[i][t]]]

PadSelf(c, K, N, T, data, tm, om, eps) ==
    [MSelf(c, K, N, T, data, om, eps) EXCEPT !.tm = tm]

InitPad ==
    \E c \in PadConfigs, sh \in MShapes, variant \in PadVariants, eps \in MEps :
    \E data \in [1..sh[1] -> [1..sh[2] -> {0, 2}]], tm \in PadTimeMasks(sh[1], sh[2]),
       pad_om \in {0, 1} :
        LET K == 2
            Flip(v) == 2 - v
            Toggle(v) == 1 - v
            Pad(v) == pad_om
            om == AtPadded([i \in 1..sh[1] |-> [t \in 1..sh[2] |-> 1]], tm, Pad)
        IN
        \* (the pooled V of two subjects with eps > 0 outgrows the checker's
        \* integers)
        /\ ~(c = "io" /\ sh[1] = 2 /\ eps # Zero)
        /\ self = PadSelf(c, K, sh[1], sh[2], data, tm, om, eps)
        /\ params = MParams(c, K)
        /\ samples = MSamples(c, sh[1])
        /\ twin = [self |-> IF variant = "data"
                            THEN PadSelf(c, K, sh[1], sh[2], AtPadded(data, tm, Flip), tm, om, eps)
                            ELSE PadSelf(c, K, sh[1], sh[2], data, tm, AtPadded(om, tm, Toggle), eps),
                   params |-> MParams(c, K), samples |-> MSamples(c, sh[1]),
                   e_out |-> Unbound]
        /\ pc = "m_start"
        /\ e_out = Unbound /\ obs = Unbound
        /\ call = Unbound /\ iter = 0 /\ prev_cost = PInf
        /\ err = NoErr /\ ret = Unbound /\ disk = Unbound

SpecPad == InitPad /\ [][NextM]_vars

\* C15: two runs that differ only at padded steps (TimeMask = 0), in the data
\* or in the observation mask there, have the same state occupancy N_k and
\* the same parameters after m_step.
C15_PaddedStepsAreIgnored ==
    /\ pc \in {"m_estep", "m_done"}
       => \A k \in 1..self.k :
            SumNT(self, MaskedGamma(self, e_out)[k])
                = SumNT(twin.self, MaskedGamma(twin.self, twin.e_out)[k])
    /\ pc = "m_done" => params = twin.params

(***************************************************************************)
(* Spec: the life of one HMM instance: the constructor, then one call of   *)
(* learn_model, get_likelihoods or load_model.  The instances have one     *)
(* subject, two visits, two states.  The variational posterior (mu_hat,    *)
(* L_hat, nu_hat, N_hat and the optimizer) is kept without its values.     *)
(***************************************************************************)
\* the largest num_iter of a learn_model call
MaxIter == 2
\* learn_model saves a checkpoint at every iteration that is a multiple of it
SaveEvery == 500

CtorCases ==
    {"plain", "ut", "io", "state_io", "perso", "full_cov", "full_cov_io",
     "perso_io", "perso_state_io", "state_io_no_io", "perso_io_no_io", "priorV_no_io", "priorMu_no_perso"}

CtorFlags(c) ==
    [full_cov |-> c \in {"full_cov", "full_cov_io"},
     io |-> c \in {"io", "state_io", "full_cov_io", "perso_io", "perso_state_io"},
     state_io |-> c \in {"state_io", "state_io_no_io", "perso_state_io"},
     perso_io |-> c \in {"perso_io_no_io", "perso_io", "perso_state_io"},
     perso |-> c = "perso",
     priorV |-> c = "priorV_no_io", priorMu |-> c = "priorMu_no_perso",
     ut |-> c = "ut", VI_diag |-> FALSE]

LoopData == {<<<<0, 2>>>>, <<<<2, 0>>>>, <<<<0, 0>>>>}
LoopIns == <<<<1, 0>>>>

\* HMM.__init__: the attributes of the instance it builds
NewSelf(flags, data, ins) ==
    flags
    @@ [k |-> 2, n |-> Len(data), t |-> Len(data[1]), data |-> data,
        tm |-> [i \in 1..Len(data) |-> [t \in 1..Len(data[1]) |-> 1]],
        om |-> [i \in 1..Len(data) |-> [t \in 1..Len(data[1]) |-> 1]],
        eps |-> Zero, min_var |-> FixtureMinVar, ll |-> <<>>]
    @@ (IF flags.perso_io \/ flags.perso
        THEN [elbo |-> <<>>] @@ Posterior(flags, Len(data), 0, "zeros") ELSE <<>>)
    @@ (IF flags.io THEN [ins |-> ins] ELSE <<>>)

\* the files a load can find: none, a checkpoint as learn_model lays it out,
\* a trained model as the driver lays it out
FileParams ==
    [mu |-> <<Zero, FromInt(2)>>, var |-> UnitVar(2), pi |-> UniformPi(2),
     A |-> UniformA(2), V |-> <<Zero>>]
CheckpointFile ==
    [params |-> FileParams, elbo |-> <<>>, entropy |-> <<>>, exp_ll |-> <<>>,
     log_prob |-> <<>>, mi |-> "saved_mu_hat", Li |-> "saved_L_hat"]
DriverFile ==
    FileParams @@ [Mi |-> "saved_mu_hat", gamma |-> <<>>, xi |-> <<>>,
                   L |-> "saved_L_hat", M0 |-> <<>>, mnoise |-> Q(1, 2)]
\* a file with the two keys load_model reads
LoadableFile ==
    [Mi |-> [n |-> 1, gen |-> 0, fill |-> "file"],
     Li |-> [n |-> 1, gen |-> 0, fill |-> "file", ver |-> 0]]
DiskFiles == {Unbound, CheckpointFile, DriverFile, LoadableFile}

NoObs ==
    [steps |-> <<>>, e_iter |-> -1, e_params |-> Unbound, init |-> Unbound,
     broke |-> FALSE, chol |-> "none", n_e |-> 0, n_m |-> 0, m_in |-> Unbound,
     e_calls |-> 0]

Init ==
    /\ pc = "new"
    /\ self = Unbound /\ params = Unbound /\ e_out = Unbound
    /\ samples = [m_sample |-> NoSample, n_sample |-> NoSample]
    /\ call = Unbound /\ iter = 0 /\ prev_cost = PInf
    /\ err = NoErr /\ ret = Unbound /\ obs = NoObs /\ twin = Unbound
    /\ disk \in DiskFiles

\* HMM(data, ins, ...): no flag is validated; with io the covariates are
\* moved to the device, which fails on ins = None.
Construct ==
    /\ pc = "new"
    /\ \E c \in CtorCases, has_ins \in BOOLEAN, data \in LoopData :
        /\ call' = CtorFlags(c) @@ [fn |-> "__init__", has_ins |-> has_ins]
        /\ IF CtorFlags(c).io /\ ~has_ins
           THEN /\ err' = Raise("AttributeError", "to")
                /\ pc' = "raised"
                /\ self' = self
           ELSE /\ self' = NewSelf(CtorFlags(c), data, LoopIns)
                /\ pc' = "idle"
                /\ err' = err
    /\ UNCHANGED <<params, samples, e_out, iter, prev_cost, ret, obs, twin, disk>>

(***************************************************************************)
(* HMM.learn_model, one action per step of its body.                       *)
(***************************************************************************)
\* e^cc for the tolerances cc the calls pass (the log-evidence is kept as the
\* rational whose log it is, so |prev_cost - obj| < cc is a bound on a ratio)
Tolerances == {Q(17, 16), Q(4, 1)}

LearnModelArgs ==
    {[fn |-> "learn_model", num_iter |-> n, use_cc |-> u, cc |-> c,
      intermediate_save |-> sv, load_model |-> l] :
        n \in 0..MaxIter, u \in BOOLEAN, c \in Tolerances, sv \in BOOLEAN, l \in BOOLEAN}

\* where the for statement goes with the loop variable at i
LoopHeadOverBudget(args, i) ==
    IF i > args.num_iter THEN "lm_return"
    ELSE IF args.intermediate_save /\ i % SaveEvery = 0 THEN "lm_save"
    ELSE "lm_estep"

LoopHead(args, i) ==
    IF i >= args.num_iter THEN "lm_return"
    ELSE IF args.intermediate_save /\ i % SaveEvery = 0 THEN "lm_save"
    ELSE "lm_estep"

Call_LearnModel ==
    /\ pc = "idle"
    /\ \E a \in LearnModelArgs :
        \* an instance with input effects or full covariance is iterated
        \* once: the exact rationals of its second update outgrow the
        \* checker's integers
        /\ self.full_cov \/ self.io => a.num_iter <= 1
        /\ call' = a
    /\ pc' = "lm_entry"
    /\ UNCHANGED <<self, params, samples, e_out, iter, prev_cost, err, ret, obs, twin, disk>>

LM_Initialize ==
    /\ pc = "lm_entry" /\ ~call.load_model
    /\ \E mu \in KMeansCentres(self), v \in FullCovInits :
        /\ self.full_cov \/ v = One
        /\ params' = InitializeModel(self, mu, v)
    /\ obs' = [obs EXCEPT !.init = params']
    /\ prev_cost' = PInf
    /\ iter' = 0
    /\ pc' = LoopHead(call, 0)
    /\ UNCHANGED <<self, samples, e_out, call, err, ret, twin, disk>>

LM_Load ==
    /\ pc = "lm_entry" /\ call.load_model
    /\ IF IsUnbound(disk)
       THEN /\ err' = Raise("FileNotFoundError", "model_name")
            /\ pc' = "raised"
            /\ UNCHANGED <<params, obs, prev_cost, iter>>
       ELSE IF MissingKey(disk, LearnModelLoadKeys) # NoErr
       THEN /\ err' = MissingKey(disk, LearnModelLoadKeys)
            /\ pc' = "raised"
            /\ UNCHANGED <<params, obs, prev_cost, iter>>
       ELSE /\ params' = [mu |-> disk.mu, var |-> disk.var, pi |-> disk.pi, A |-> disk.A,
                          V |-> disk.V]
                         @@ (IF self.perso_io THEN [mnoise |-> Q(3, 2)] ELSE <<>>)
            /\ obs' = [obs EXCEPT !.init = params']
            /\ prev_cost' = PInf
            /\ iter' = 0
            /\ pc' = LoopHead(call, 0)
            /\ err' = err
    /\ UNCHANGED <<self, samples, e_out, call, ret, twin, disk>>

LM_Save ==
    /\ pc = "lm_save"
    /\ IF MissingAttr(self, CheckpointAttrs) # NoErr
       THEN /\ err' = MissingAttr(self, CheckpointAttrs)
            /\ pc' = "raised"
            /\ disk' = disk
       ELSE /\ disk' = Checkpoint(self, params)
            /\ pc' = "lm_estep"
            /\ err' = err
    /\ UNCHANGED <<self, params, samples, e_out, call, iter, prev_cost, ret, obs, twin>>

\* the draws of the personalized effects of the one subject
SampleDraws == {<<Zero>>, <<One>>}

\* e_step: sample, likelihoods, forward, backward, gamma, xi, pX, and with a
\* personalized effect one step of the variational optimizer
LM_EStep ==
    /\ pc = "lm_estep"
    /\ \E m \in SampleDraws, n \in SampleDraws :
        LET smp == [m_sample |-> IF self.perso_io THEN m ELSE NoSample,
                    n_sample |-> IF self.perso THEN n ELSE NoSample]
        IN /\ self.perso_io \/ m = <<Zero>>
           /\ self.perso \/ n = <<Zero>>
           /\ IF EStepError(self, params, smp) # NoErr
              THEN /\ err' = EStepError(self, params, smp)
                   /\ pc' = "raised"
                   /\ obs' = [obs EXCEPT !.e_calls = @ + 1]
                   /\ UNCHANGED <<self, params, samples, e_out>>
              ELSE /\ samples' = smp
                   /\ e_out' = EOut(EStepLocals(self, params, smp))
                   /\ params' = EStepParamsAfter(self, params)
                   /\ self' = IF self.perso_io \/ self.perso
                              THEN OptimizerStep([self EXCEPT !.elbo = Append(@, "elbo")])
                              ELSE self
                   /\ obs' = [obs EXCEPT !.steps = <<"e_step">>, !.e_iter = iter,
                                         !.e_params = params, !.n_e = @ + 1,
                                         !.e_calls = @ + 1]
                   /\ pc' = "lm_append"
                   /\ err' = err
    /\ UNCHANGED <<call, iter, prev_cost, ret, twin, disk>>

LM_AppendOverwrite ==
    /\ pc = "lm_append"
    /\ self' = [self EXCEPT !.ll = IF @ = <<>> THEN <<e_out.pX>>
                                   ELSE [@ EXCEPT ![Len(@)] = e_out.pX]]
    /\ obs' = [obs EXCEPT !.steps = Append(@, "append")]
    /\ pc' = IF call.use_cc THEN "lm_cc" ELSE "lm_mstep"
    /\ UNCHANGED <<params, samples, e_out, call, iter, prev_cost, err, ret, twin, disk>>

\* obj = e_out['pX'].item(); self.ll.append(obj)
LM_Append ==
    /\ pc = "lm_append"
    /\ self' = [self EXCEPT !.ll = Append(@, e_out.pX)]
    /\ obs' = [obs EXCEPT !.steps = Append(@, "append")]
    /\ pc' = IF call.use_cc THEN "lm_cc" ELSE "lm_mstep"
    /\ UNCHANGED <<params, samples, e_out, call, iter, prev_cost, err, ret, twin, disk>>

ConvergedFromZero(prev, obj, tol) ==
    LET ratio == Over(IF IsPInf(Exp(prev)) THEN One ELSE Exp(prev), Exp(obj))
    IN IsReal(ratio) /\ Less(ratio, tol) /\ Less(Over(One, tol), ratio)

\* np.abs(prev_cost - obj) < cc on log-evidences, tol = e^cc: the ratio of the
\* evidences lies strictly between 1/tol and tol (false on inf and NaN)
Converged(prev, obj, tol) ==
    LET ratio == Over(Exp(prev), Exp(obj))
    IN IsReal(ratio) /\ Less(ratio, tol) /\ Less(Over(One, tol), ratio)

\* break, or go on to the M-step
AfterConvTestNoBreak(conv) == "lm_mstep"

AfterConvTest(conv) == IF conv THEN "lm_return" ELSE "lm_mstep"

LM_ConvTest ==
    /\ pc = "lm_cc"
    /\ LET conv == Converged(prev_cost, e_out.pX, call.cc)
       IN /\ obs' = [obs EXCEPT !.steps = Append(@, "cc"), !.broke = conv]
          /\ prev_cost' = IF conv THEN prev_cost ELSE e_out.pX
          /\ pc' = AfterConvTest(conv)
    /\ UNCHANGED <<self, params, samples, e_out, call, iter, err, ret, twin, disk>>

LM_MStep ==
    /\ pc = "lm_mstep"
    /\ IF MStepError(self) # NoErr
       THEN /\ err' = MStepError(self)
            /\ pc' = "raised"
            /\ UNCHANGED <<params, iter, obs>>
       ELSE /\ params' = MStep(self, e_out, params, samples)
            /\ obs' = [obs EXCEPT !.steps = Append(@, "m_step"), !.n_m = @ + 1,
                                  !.m_in = MStepInputAfter(self, e_out, params, samples)]
            /\ iter' = iter + 1
            /\ pc' = LoopHead(call, iter + 1)
            /\ err' = err
    /\ UNCHANGED <<self, samples, e_out, call, prev_cost, ret, twin, disk>>

\* return params, e_out, self.ll (, self.elbo and the variational posterior)
LM_Return ==
    /\ pc = "lm_return"
    /\ IF IsUnbound(e_out)
       THEN /\ err' = Raise("UnboundLocalError", "e_out")
            /\ pc' = "raised"
            /\ ret' = ret
       ELSE /\ ret' = [params |-> params, e_out |-> e_out, ll |-> self.ll]
                      @@ (IF self.perso_io \/ self.perso THEN [elbo |-> self.elbo] ELSE <<>>)
            /\ pc' = "returned"
            /\ err' = err
    /\ UNCHANGED <<self, params, samples, e_out, call, iter, prev_cost, obs, twin, disk>>

(***************************************************************************)
(* HMM.get_likelihoods(params, n_sample = ...) called by the user, with    *)
(* log_gaussian's full-covariance path taken one statement at a time.      *)
(***************************************************************************)
\* the parameters the caller passes: initial ones, and the same with a
\* singular covariance for the first state
LGParams(flags) ==
    LET p == InitializeModel(flags, <<Zero, FromInt(2)>>, One)
    IN {p, [p EXCEPT !.var = [k \in 1..flags.k |-> IF k = 1 THEN Zero ELSE One]]}

Call_GetLikelihoods ==
    /\ pc = "idle"
    /\ \E p \in LGParams(self), ns \in {NoSample, <<One>>} :
        /\ self.perso \/ ns = NoSample
        /\ params' = p
        /\ samples' = [m_sample |-> NoSample, n_sample |-> ns]
        /\ call' = [fn |-> "get_likelihoods", singular |-> CholeskyFails(p)]
    /\ obs' = [obs EXCEPT !.chol = "none"]
    /\ pc' = IF self.full_cov THEN "lg_cholesky" ELSE "lg_diag"
    /\ UNCHANGED <<self, e_out, iter, prev_cost, err, ret, twin, disk>>

\* the diagonal path and the observation mask
LG_Diag ==
    /\ pc = "lg_diag"
    /\ IF LogGaussianError(self, params, samples) # NoErr
       THEN /\ err' = LogGaussianError(self, params, samples)
            /\ pc' = "raised"
            /\ ret' = ret
       ELSE /\ ret' = [value |-> GetLikelihoods(self, params, samples)]
            /\ pc' = "returned"
            /\ err' = err
    /\ UNCHANGED <<self, params, samples, e_out, call, iter, prev_cost, obs, twin, disk>>

\* try: L = torch.cholesky(var)
LG_Cholesky ==
    /\ pc = "lg_cholesky"
    /\ IF CholeskyFails(params)
       THEN /\ obs' = [obs EXCEPT !.chol = "failed"]
            /\ pc' = "lg_except"
       ELSE /\ obs' = [obs EXCEPT !.chol = "factored"]
            /\ pc' = "lg_rest"
    /\ UNCHANGED <<self, params, samples, e_out, call, iter, prev_cost, err, ret, twin, disk>>

\* except: print(var); print(mu); print(params['A']); print(params['V'])
LG_Except ==
    /\ pc = "lg_except"
    /\ IF "V" \in DOMAIN params
       THEN /\ pc' = "lg_rest"
            /\ err' = err
       ELSE /\ err' = Raise("KeyError", "V")
            /\ pc' = "raised"
    /\ UNCHANGED <<self, params, samples, e_out, call, iter, prev_cost, ret, obs, twin, disk>>

\* the statements after the try statement: r, batch_mahalanobis(L, r),
\* log_det, log_p, and the observation mask of get_likelihoods
LG_Rest ==
    /\ pc = "lg_rest"
    /\ IF LogGaussianError(self, params, samples) # NoErr
       THEN /\ err' = LogGaussianError(self, params, samples)
            /\ pc' = "raised"
            /\ ret' = ret
       ELSE /\ ret' = [value |-> GetLikelihoods(self, params, samples)]
            /\ pc' = "returned"
            /\ err' = err
    /\ UNCHANGED <<self, params, samples, e_out, call, iter, prev_cost, obs, twin, disk>>

(***************************************************************************)
(* HMM.load_model(filename).                                               *)
(***************************************************************************)
\* the keys load_model reads, in the order it reads them
LoadModelKeys == <<"Mi", "Li">>

LoadModel ==
    /\ pc = "idle"
    /\ call' = [fn |-> "load_model"]
    /\ IF IsUnbound(disk)
       THEN /\ err' = Raise("FileNotFoundError", "filename")
            /\ pc' = "raised"
            /\ UNCHANGED <<self, ret>>
       ELSE IF MissingKey(disk, LoadModelKeys) # NoErr
       THEN /\ err' = MissingKey(disk, LoadModelKeys)
            /\ pc' = "raised"
            /\ UNCHANGED <<self, ret>>
       ELSE /\ self' = [mu_hat |-> disk.Mi, L_hat |-> disk.Li] @@ self
            /\ ret' = [value |-> "None"]
            /\ pc' = "returned"
            /\ err' = err
    /\ UNCHANGED <<params, samples, e_out, iter, prev_cost, obs, twin, disk>>

(***************************************************************************)
(* HMM.change_data(data, ins, OM, TM, reset_VI, params), on a new instance *)
(* or after learn_model returned.                                          *)
(***************************************************************************)
\* the datasets a caller swaps in: one subject with one visit, two with three
NewData == {<<<<2>>>>, <<<<0, 2, 2>>, <<2, 0, 0>>>>}

ChangeDataArgs ==
    {[data |-> d, has_ins |-> hi, ins |-> AllOnes(Len(d), Len(d[1])),
      has_TM |-> ht, TM |-> [i \in 1..Len(d) |-> PrefixMask(Len(d[1]), 1)],
      has_OM |-> ho, OM |-> [i \in 1..Len(d) |-> [t \in 1..Len(d[1]) |-> t % 2]],
      reset_VI |-> r, has_params |-> hp] :
        d \in NewData, hi \in BOOLEAN, ht \in BOOLEAN, ho \in BOOLEAN, r \in BOOLEAN,
        hp \in BOOLEAN}

ChangeData ==
    /\ \/ pc = "idle"
       \/ pc = "returned" /\ call.fn = "learn_model"
    /\ \E a \in ChangeDataArgs :
        LET new == a @@ [params |-> IF pc = "idle"
                                   THEN InitializeModel(self, <<Zero, FromInt(2)>>, One)
                                   ELSE ret.params]
            res == ChangeDataResult(self, new)
        IN /\ call' = [fn |-> "change_data", old |-> self] @@ new
           /\ self' = res.self
           /\ err' = res.err
           /\ pc' = IF res.err = NoErr THEN "returned" ELSE "raised"
    /\ ret' = [value |-> "None"]
    /\ UNCHANGED <<params, samples, e_out, iter, prev_cost, obs, twin, disk>>

(***************************************************************************)
(* HMM.learn_baseline_vi_params(params, num_iter), one action per pass of  *)
(* its loop.                                                               *)
(***************************************************************************)
Call_LearnBaseline ==
    /\ pc = "idle"
    /\ \E n \in 0..MaxIter :
        call' = [fn |-> "learn_baseline_vi_params", num_iter |-> n,
                 params |-> InitializeModel(self, <<Zero, FromInt(2)>>, One)]
    /\ params' = InitializeModel(self, <<Zero, FromInt(2)>>, One)
    /\ iter' = 0
    /\ pc' = "lb_head"
    /\ UNCHANGED <<self, samples, e_out, prev_cost, err, ret, obs, twin, disk>>

\* one pass: sample, likelihoods, gamma = log pi + likelihood, and with a
\* personalized effect one optimizer step on baseline_variational_obj
LB_Iterate ==
    /\ pc = "lb_head" /\ iter < call.num_iter
    /\ \E m \in SampleDraws, n \in SampleDraws :
        LET smp == [m_sample |-> IF self.perso_io THEN m ELSE NoSample,
                    n_sample |-> IF self.perso THEN n ELSE NoSample]
        IN /\ self.perso_io \/ m = <<Zero>>
           /\ self.perso \/ n = <<Zero>>
           /\ IF EStepError(self, params, smp) # NoErr
              THEN /\ err' = EStepError(self, params, smp)
                   /\ pc' = "raised"
                   /\ UNCHANGED <<self, samples, e_out, iter>>
              ELSE /\ samples' = smp
                   /\ e_out' = [gamma |-> LET lik == GetLikelihoods(self, params, smp) IN
                                    Force([k \in 1..self.k |-> Force([i \in 1..self.n |->
                                        Force([t \in 1..self.t |->
                                            LogAdd(Log(params.pi[k]), lik[k][i][t])])])])]
                   /\ self' = IF self.perso_io \/ self.perso
                              THEN OptimizerStep([self EXCEPT !.elbo = Append(@, "baseline_elbo")])
                              ELSE self
                   /\ iter' = iter + 1
                   /\ pc' = "lb_head"
                   /\ err' = err
    /\ UNCHANGED <<params, call, prev_cost, ret, obs, twin, disk>>

\* return params, e_out, self.ll (, self.elbo and the variational posterior)
LB_Return ==
    /\ pc = "lb_head" /\ iter >= call.num_iter
    /\ IF IsUnbound(e_out)
       THEN /\ err' = Raise("UnboundLocalError", "e_out")
            /\ pc' = "raised"
            /\ ret' = ret
       ELSE /\ ret' = [params |-> params, e_out |-> e_out, ll |-> self.ll]
                      @@ (IF self.perso_io \/ self.perso THEN [elbo |-> self.elbo] ELSE <<>>)
            /\ pc' = "returned"
            /\ err' = err
    /\ UNCHANGED <<self, params, samples, e_out, call, iter, prev_cost, obs, twin, disk>>

Next ==
    \/ Call_LearnBaseline \/ LB_Iterate \/ LB_Return
    \/ ChangeData
    \/ Construct
    \/ Call_LearnModel \/ LM_Initialize \/ LM_Load \/ LM_Save \/ LM_EStep
    \/ LM_Append \/ LM_ConvTest \/ LM_MStep \/ LM_Return
    \/ Call_GetLikelihoods \/ LG_Diag \/ LG_Cholesky \/ LG_Except \/ LG_Rest
    \/ LoadModel

Spec == Init /\ [][Next]_vars

(***************************************************************************)
(* Properties of the life of an instance.                                  *)
(***************************************************************************)
\* C5: learn_model with num_iter = 0 completes and returns the parameters
\* the initializer produced: no E-step, no M-step, no change to the
\* log-evidence history.
C5_ZeroIterationsReturnInit ==
    (/\ pc \in {"returned", "raised"}
     /\ call.fn = "learn_model"
     /\ call.num_iter = 0
     /\ ~call.load_model)
    => (/\ pc = "returned"
        /\ ret.params = obs.init
        /\ self.ll = <<>>
        /\ obs.steps = <<>>)

\* C7: the checkpoint learn_model writes can be read back: the save step
\* writes it, every key load_model and learn_model(load_model = True) read is
\* a key of the checkpoint at the level they read it, and what they load is
\* what was saved.
C7_SaveLoadRoundTrip ==
    /\ (pc = "raised" /\ call.fn = "learn_model") => err.type # "AttributeError"
    /\ (pc \in {"returned", "raised"} /\ call.fn = "load_model" /\ disk = CheckpointFile)
       => (/\ pc = "returned"
           /\ self.mu_hat = disk.mi
           /\ self.L_hat = disk.Li)
    /\ (/\ pc \notin {"new", "idle", "lm_entry"}
        /\ call.fn = "learn_model"
        /\ call.load_model
        /\ disk = CheckpointFile)
       => (/\ err.type # "KeyError"
           /\ obs.init.mu = disk.params.mu
           /\ obs.init.var = disk.params.var
           /\ obs.init.pi = disk.params.pi
           /\ obs.init.A = disk.params.A)

\* the flag combinations that conflict
Conflicting(f, has_ins) ==
    \/ (f.state_io \/ f.perso_io) /\ ~f.io
    \/ f.io /\ ~has_ins
    \/ f.priorV /\ ~f.io
    \/ f.priorMu /\ ~f.perso

\* C8: a constructor call with conflicting flags is rejected with a
\* configuration error, so no instance with conflicting flags exists for a
\* likelihood, E-step or M-step to run on.
C8_ConflictingFlagsRejected ==
    /\ (pc # "new" /\ call.fn = "__init__" /\ Conflicting(call, call.has_ins))
       => (pc = "raised" /\ err.type = "InvalidConfigurationError")
    /\ ~IsUnbound(self) => ~Conflicting(self, TRUE)

\* C9: when the Cholesky factorization of the full-covariance path fails, the
\* likelihood evaluation ends with a numerical-instability error; the failure
\* is never caught to go on with the rest of log_gaussian.
C9_CholeskyFailureIsTypedError ==
    (pc # "new" /\ call.fn = "get_likelihoods" /\ obs.chol = "failed")
    => (pc = "raised" /\ err.type = "NumericalInstabilityError")

IsPrefix(a, b) == Len(a) <= Len(b) /\ a = SubSeq(b, 1, Len(a))

\* the steps of one iteration of learn_model, in order
IterationSteps(args) ==
    IF args.use_cc THEN <<"e_step", "append", "cc", "m_step">>
    ELSE <<"e_step", "append", "m_step">>

\* C10: every iteration of learn_model runs E-step, append to the history,
\* (with use_cc) the convergence test, M-step, in this order; the M-step of
\* iteration j consumes the e_out and the sample of iteration j's E-step;
\* when the convergence test fires the loop stops without that iteration's
\* M-step and the call returns the parameters the last E-step was run with.
C10_LoopOrder ==
    (pc \notin {"new", "idle"} /\ call.fn = "learn_model")
    => (/\ IsPrefix(obs.steps, IterationSteps(call))
        /\ Len(self.ll) = (IF obs.e_iter < 0 THEN 0
                           ELSE obs.e_iter + (IF Len(obs.steps) >= 2 THEN 1 ELSE 0))
        /\ Len(obs.steps) >= 2 => self.ll[Len(self.ll)] = e_out.pX
        /\ pc = "lm_mstep" => (obs.e_iter = iter /\ obs.e_params = params)
        /\ (obs.steps # <<>> /\ obs.steps[Len(obs.steps)] = "m_step")
           => (/\ obs.e_iter + 1 = iter
               /\ params = MStep(self, e_out, obs.e_params, samples))
        /\ obs.broke
           => (/\ pc \in {"lm_return", "returned"}
               /\ obs.steps = <<"e_step", "append", "cc">>
               /\ obs.e_iter = iter
               /\ params = obs.e_params
               /\ Converged(prev_cost, e_out.pX, call.cc))
        /\ (pc = "returned" /\ obs.broke)
           => (ret.params = obs.e_params /\ ret.e_out = e_out))

\* A learn_model call ran an M-step in its first iteration, met the
\* convergence test in its second, and returned the parameters that second
\* E-step was run with, which are not the initial ones.
C10_Witness ==
    /\ pc = "returned" /\ call.fn = "learn_model" /\ call.use_cc
    /\ obs.broke /\ iter = 1 /\ Len(self.ll) = 2
    /\ ret.params = obs.e_params
    /\ ret.params # obs.init

\* an upper bound on the number of statements a learn_model call has left
StepsLeft ==
    IF pc \in {"returned", "raised"} THEN 0
    ELSE IF pc = "lm_return" THEN 1
    ELSE IF pc = "lm_entry" THEN 6 * call.num_iter + 2
    ELSE 6 * (call.num_iter - iter - 1) + 2
         + (CASE pc = "lm_mstep" -> 0 [] pc = "lm_cc" -> 1 [] pc = "lm_append" -> 2
              [] pc = "lm_estep" -> 3 [] pc = "lm_save" -> 4)

C13_OneOptimizerStepPerEStep ==
    (/\ pc \notin {"new", "idle", "lm_entry"} /\ call.fn = "learn_model"
     /\ ~Conflicting(self, TRUE))
    => (/\ (self.perso_io \/ self.perso)
           => (self.optimizer.steps = obs.e_calls /\ Len(self.elbo) = obs.e_calls)
        /\ ~(self.perso_io \/ self.perso)
           => (/\ "elbo" \notin DOMAIN self /\ "optimizer" \notin DOMAIN self
               /\ Len(self.ll) <= obs.e_calls))

\* the variational posterior of an instance: its tensors and its optimizer
PosteriorOf(s) ==
    [f \in DOMAIN s \cap {"mu_hat", "tril_vec", "L_hat", "nu_hat", "tril", "N_hat",
                          "optimizer"} |-> s[f]]

\* C16: change_data with the arguments its configuration needs, on a model
\* with a personalized effect, returns; the instance then holds the new data,
\* n, t and masks (all ones for an omitted mask); with reset_VI the
\* variational tensors are new ones of first dimension n, the ELBO history is
\* empty and the optimizer is a new one over the new tensors; without, the
\* posterior, the ELBO history and the optimizer are as before; the
\* log-evidence history is as before in both cases.
C16_ChangeDataResets ==
    (/\ pc \in {"returned", "raised"} /\ call.fn = "change_data"
     /\ call.old.perso_io \/ call.old.perso
     /\ ~Conflicting(call.old, call.has_ins)
     /\ call.has_params \/ ~call.reset_VI)
    => (/\ pc = "returned"
        /\ self.data = call.data
        /\ self.n = Len(call.data) /\ self.t = Len(call.data[1])
        /\ self.tm = (IF call.has_TM THEN call.TM ELSE AllOnes(self.n, self.t))
        /\ self.om = (IF call.has_OM THEN call.OM ELSE AllOnes(self.n, self.t))
        /\ self.ll = call.old.ll
        /\ IF call.reset_VI
           THEN /\ self.elbo = <<>>
                /\ self.optimizer = [steps |-> 0, gen |-> call.old.optimizer.gen + 1]
                /\ \A f \in DOMAIN PosteriorOf(self) \ {"optimizer"} :
                      self[f].n = self.n /\ self[f].gen = self.optimizer.gen
           ELSE /\ self.elbo = call.old.elbo
                /\ PosteriorOf(self) = PosteriorOf(call.old))

\* A personalized model that learn_model trained for two iterations on one
\* subject was given two subjects with reset_VI and no observation mask.
C16_Witness ==
    /\ pc = "returned" /\ call.fn = "change_data" /\ call.reset_VI /\ ~call.has_OM
    /\ self.perso /\ call.old.n = 1 /\ self.n = 2
    /\ Len(call.old.elbo) = 2 /\ call.old.optimizer.steps = 2 /\ Len(self.ll) = 2
    /\ self.nu_hat.n = 2 /\ self.elbo = <<>>

\* NaN among the entries of a vector, a matrix, a k x n x t tensor
NaNInVector(v) == \E k \in DOMAIN v : IsNaN(v[k])
NaNInMatrix(m) == \E i \in DOMAIN m : NaNInVector(m[i])
NaNInTensor(x) == \E k \in DOMAIN x : NaNInMatrix(x[k])

\* C18: with the upper-triangular transition matrix, a prefix-contiguous
\* time mask and a binary observation mask, neither the responsibilities
\* and the total log-evidence of e_step nor the parameters m_step returns
\* (pi, A, mu, var) hold a NaN.
C18_NoNaNWithTriangularA ==
    (self.ut /\ pc \in {"m_estep", "m_done"}) =>
        /\ ~NaNInTensor(e_out.gamma) /\ ~IsNaN(e_out.pX)
        /\ pc = "m_done" =>
              /\ ~NaNInVector(params.pi) /\ ~NaNInMatrix(params.A)
              /\ ~NaNInVector(params.mu) /\ ~NaNInVector(params.var)

\* C19: after m_step on data with some observed first visit, the mixing
\* weights pi are non-negative and sum to 1 over the states, whatever eps
\* the model was configured with.
C19_PiSumsToOne ==
    (pc = "m_done" /\ \E i \in 1..self.n : self.om[i][1] = 1) =>
        /\ \A k \in 1..self.k : Leq(Zero, params.pi[k])
        /\ SumSeq(params.pi) = One

\* C20: with eps > 0 every division of m_step has a positive denominator:
\* whatever the observation mask and the input covariate leave of the
\* responsibility mass, the returned pi, mu, var and V are finite numbers.
C20_EpsGuardsEveryDivision ==
    (pc = "m_done" /\ self.eps # Zero) =>
        /\ \A k \in 1..self.k :
              IsReal(params.pi[k]) /\ IsReal(params.mu[k]) /\ IsReal(params.var[k])
        /\ self.io => \A k \in DOMAIN params.V : IsReal(params.V[k])

\* C21: after m_step, on the diagonal path every entry of var is at least
\* min_var; on the full-covariance path the var of a state is the
\* responsibility-weighted sum of squared residuals over N_k + eps, plus the
\* ridge 1e-4 on the diagonal.
C21_VarianceFloor ==
    pc = "m_done" =>
        \A k \in 1..self.k :
            IF self.full_cov
            THEN LET g == MaskedGamma(self, e_out)
                     V == IF self.io THEN params.V ELSE Unbound
                 IN params.var[k] =
                      Plus(Over(SumNT(self, Force([i \in 1..self.n |-> Force([t \in 1..self.t |->
                                    Times(g[k][i][t],
                                          Sq(VarResidual(self, params.mu, V, samples, k, i, t)))])])),
                                Plus(SumNT(self, g[k]), self.eps)),
                           Q(1, 10000))
            ELSE Leq(self.min_var, params.var[k])

\* log A[j, k] + omega[j, i, t - 1]: what viterbi maximizes over j at step t
VitCandidate(j, k, i, t) == LogAdd(Log(params.A[j][k]), ret.omega[j][i][t - 1])

\* C22: in what viterbi returns, the predecessor of state k at a step after
\* the first is the lowest-index maximizer of log A[., k] + omega[., t - 1],
\* the last state of the path is the lowest-index maximizer of the last
\* column of omega, every earlier state of the path is the predecessor of
\* its successor, and every state of the path is one of the K states.
C22_ViterbiBacktrack ==
    pc = "vit_done" =>
        \A i \in 1..self.n :
            /\ \A t \in 2..self.t : \A k \in 1..self.k :
                  LET b == ret.psi[k][i][t] IN
                  /\ b \in 1..self.k
                  /\ \A j \in 1..self.k : Leq(VitCandidate(j, k, i, t), VitCandidate(b, k, i, t))
                  /\ \A j \in 1..(b - 1) : Less(VitCandidate(j, k, i, t), VitCandidate(b, k, i, t))
            /\ LET z == ret.mps[i][self.t] IN
                  /\ \A j \in 1..self.k : Leq(ret.omega[j][i][self.t], ret.omega[z][i][self.t])
                  /\ \A j \in 1..(z - 1) : Less(ret.omega[j][i][self.t], ret.omega[z][i][self.t])
            /\ \A t \in 1..(self.t - 1) :
                  ret.mps[i][t] = ret.psi[ret.mps[i][t + 1]][i][t + 1]
            /\ \A t \in 1..self.t : ret.mps[i][t] \in 1..self.k

\* viterbi decoded a 3-state, 4-step fixture whose path changes state, and
\* at some step two predecessors of a state tie for the maximum.
C22_Witness ==
    /\ pc = "vit_done" /\ self.k = 3 /\ self.t = 4
    /\ ret.mps[1][1] # ret.mps[1][4]
    /\ \E t \in 2..self.t : \E k \in 1..self.k : \E j \in 1..self.k :
          /\ j # ret.psi[k][1][t]
          /\ VitCandidate(j, k, 1, t) = VitCandidate(ret.psi[k][1][t], k, 1, t)
          /\ ret.mps[1][t] = k

\* C23: after forward and backward under a prefix-contiguous time mask, at
\* every padded step (TimeMask = 0) alpha, beta and the scaling factor are
\* exactly 0 for every state (Log(One) here), and beta is 0 at each
\* subject's last valid step and at the last step.
C23_PaddedStepsAreZero ==
    pc = "fb_done" =>
        \A i \in 1..self.n : \A t \in 1..self.t :
            /\ self.tm[i][t] = 0 =>
                  /\ obs.scaling_factor[i][t] = Log(One)
                  /\ \A k \in 1..self.k :
                        obs.alpha[k][i][t] = Log(One) /\ obs.beta[k][i][t] = Log(One)
            /\ (t = ValidLen(self.tm[i]) \/ t = self.t) =>
                  \A k \in 1..self.k : obs.beta[k][i][t] = Log(One)

\* forward and backward ran on a 4-step subject whose last two steps are
\* padding, and alpha, beta and the scaling factor are not 0 where it is valid.
C23_Witness ==
    /\ pc = "fb_done" /\ self.k = 3 /\ self.t = 4 /\ self.tm[1] = <<1, 1, 0, 0>>
    /\ obs.alpha[1][1][2] # Log(One) /\ obs.beta[1][1][1] # Log(One)
    /\ obs.scaling_factor[1][2] # Log(One)
    /\ obs.likelihood[1][1][3] # Log(One)

\* C24: the log-evidence history only grows at its end: the one step that
\* changes it is the append of learn_model, which adds the pX of the E-step
\* just run, between that E-step and the convergence test or M-step; no step
\* of learn_model, e_step, m_step or change_data changes or removes an
\* entry; and when learn_model returns the history has grown by the number
\* of E-steps the call ran.
C24_HistoryAppendOnly ==
    /\ [](/\ pc = "lm_append" => Len(self.ll) = obs.n_e - 1
          /\ (pc \in {"lm_cc", "lm_mstep", "lm_return"}
              \/ (pc = "returned" /\ call.fn = "learn_model")) => Len(self.ll) = obs.n_e)
    /\ [][pc # "new" =>
            \/ self'.ll = self.ll
            \/ /\ pc = "lm_append" /\ obs.steps = <<"e_step">>
               /\ self'.ll = Append(self.ll, e_out.pX)]_vars

\* learn_model returned after two iterations whose log-evidences differ,
\* and change_data then replaced the data without touching the history.
C24_Witness ==
    /\ pc = "returned" /\ call.fn = "change_data" /\ obs.n_e = 2 /\ obs.n_m = 2
    /\ Len(self.ll) = 2 /\ self.ll[1] # self.ll[2]
    /\ self.ll = call.old.ll /\ self.n # call.old.n

\* the covariance factors of an instance hold what their packed vectors hold
FactorsUnpacked(s) ==
    /\ "L_hat" \in DOMAIN s => ("tril_vec" \in DOMAIN s /\ s.L_hat = Unpack(s.tril_vec))
    /\ "N_hat" \in DOMAIN s => ("tril" \in DOMAIN s /\ s.N_hat = Unpack(s.tril))

\* C25: learn_baseline_vi_params on a model with a personalized effect (and
\* no flag conflict), asked for at least one iteration, raises nothing; after
\* each pass it has taken one optimizer step on the baseline objective and
\* appended one ELBO value, and the factors hold the packed vectors; it
\* leaves the parameters and the log-evidence history as they were and
\* returns the parameters it was given after num_iter passes.
C25_BaselineLoop ==
    (/\ pc \in {"lb_head", "returned", "raised"}
     /\ call.fn = "learn_baseline_vi_params" /\ call.num_iter >= 1
     /\ self.perso_io \/ self.perso
     /\ ~Conflicting(self, TRUE))
    => (/\ pc # "raised"
        /\ self.optimizer.steps = iter /\ Len(self.elbo) = iter
        /\ \A j \in 1..Len(self.elbo) : self.elbo[j] = "baseline_elbo"
        /\ FactorsUnpacked(self)
        /\ params = call.params /\ self.ll = <<>>
        /\ pc = "returned" => (iter = call.num_iter /\ ret.params = call.params))

\* C26: once constructed, and after every e_step, pass of
\* learn_baseline_vi_params, change_data and load_model, each covariance
\* factor the instance holds (L_hat, N_hat) is the unpacking of the current
\* contents of its packed vector (tril_vec, tril).
C26_FactorsFollowPackedVectors ==
    pc # "new" =>
        /\ "tril_vec" \in DOMAIN self => self.L_hat = Unpack(self.tril_vec)
        /\ "tril" \in DOMAIN self => self.N_hat = Unpack(self.tril)

\* C27: on a diagonal covariance the diagonal path of log_gaussian gives,
\* at every state, subject and step, what the full-covariance path gives on
\* the same covariance: -1/2 (r^2 / var + log(2 pi) + log var) for d = 1.
C27_DiagonalPathMatchesFullPath ==
    pc = "fb_lik" =>
        /\ ret.terms = LogGaussianTerms([self EXCEPT !.full_cov = TRUE], params, samples)
        /\ \A k \in 1..self.k : \A i \in 1..self.n : \A t \in 1..self.t :
              /\ ret.terms[k][i][t].logvar = Q(-1, 2)
              /\ ret.terms[k][i][t].log2pi = Q(-1, 2)

\* the names of the model parameters beyond mu, var, pi and A
OptionalParams == {"V", "mnoise", "vnoise", "nnoise", "munoise"}

\* C28: in a learn_model call that starts from initialize_model, on every
\* configuration the constructor builds, the parameter set keeps the keys
\* initialize_model gave it through every M-step, and neither the E-step nor
\* the M-step ends on a parameter (V, mnoise, vnoise, nnoise, munoise) that
\* is missing.
C28_ParameterSetComplete ==
    (pc \notin {"new", "idle", "lm_entry"} /\ call.fn = "learn_model" /\ ~call.load_model)
        => /\ DOMAIN params = DOMAIN obs.init
           /\ (pc = "raised" /\ err.type \in {"KeyError", "UnboundLocalError"})
                 => err.what \notin OptionalParams

\* A is upper-triangular with a strictly positive diagonal
UpperTriangular(A) ==
    \A i \in DOMAIN A :
        /\ Less(Zero, A[i][i])
        /\ \A j \in 1..(i - 1) : A[i][j] = Zero

\* a log-value that is neither -inf, +inf nor NaN
FiniteLog(l) == IsReal(l) /\ l # Log(Zero)

\* C29: when the transition matrix is upper-triangular with a strictly
\* positive diagonal, every entry of pi is strictly positive and every
\* emission log-likelihood is finite, the path viterbi returns never moves
\* to a lower state: mps[i, t] <= mps[i, t + 1] for every subject and step.
C29_PathNonDecreasing ==
    (/\ pc = "vit_done"
     /\ UpperTriangular(params.A)
     /\ \A k \in 1..self.k : Less(Zero, params.pi[k])
     /\ \A k \in 1..self.k : \A i \in 1..self.n : \A t \in 1..self.t :
            FiniteLog(obs.likelihood[k][i][t]))
        => \A i \in 1..self.n : \A t \in 1..(self.t - 1) :
              ret.mps[i][t] <= ret.mps[i][t + 1]

\* viterbi decoded a 3-state, 5-step fixture with the upper-triangular
\* transition matrix; the path climbs from the first state to the last and
\* stays there over a later observation at the first state's mean.
C29_Witness ==
    /\ pc = "vit_done" /\ self.k = 3 /\ self.t = 5
    /\ params.A = TriuA(3) /\ UpperTriangular(params.A)
    /\ \A k \in 1..self.k : Less(Zero, params.pi[k])
    /\ \A k \in 1..self.k : \A t \in 1..self.t : FiniteLog(obs.likelihood[k][1][t])
    /\ ret.mps[1][1] = 1 /\ ret.mps[1][5] = 3
    /\ \E t \in 2..5 : ret.mps[1][t] = 3 /\ self.om[1][t] = 1 /\ self.data[1][t] = 0

(***************************************************************************)
(* SpecCC: the loop of learn_model with use_cc = True on the plain         *)
(* instance, with the log-evidence each E-step returns left open: a finite *)
(* value, -inf, +inf or NaN.  The tolerance cc ranges over positive        *)
(* values, 0, +inf and NaN (kept as e^cc).                                 *)
(***************************************************************************)
InitCC ==
    \E data \in LoopData, n \in 0..MaxIter, c \in Tolerances \cup {One, PInf, NaN} :
        LET s == NewSelf(CtorFlags("plain"), data, LoopIns) IN
        \E mu \in KMeansCentres(s) :
            /\ self = s
            /\ params = InitializeModel(s, mu, One)
            /\ call = [fn |-> "learn_model", num_iter |-> n, use_cc |-> TRUE, cc |-> c,
                       intermediate_save |-> FALSE, load_model |-> FALSE]
            /\ obs = [NoObs EXCEPT !.init = InitializeModel(s, mu, One)]
            /\ pc = IF n = 0 THEN "lm_return" ELSE "lm_estep"
            /\ samples = [m_sample |-> NoSample, n_sample |-> NoSample]
            /\ e_out = Unbound /\ iter = 0 /\ prev_cost = PInf
            /\ err = NoErr /\ ret = Unbound /\ twin = Unbound /\ disk = Unbound

\* e_out, params, samples = self.e_step(params), with e_out['pX'] any of
\* log 1, log 4, -inf, +inf and NaN
CC_EStep ==
    /\ pc = "lm_estep"
    /\ \E px \in {One, Q(4, 1), Log(Zero), PInf, NaN} :
        e_out' = [EOut(EStepLocals(self, params, samples)) EXCEPT !.pX = px]
    /\ obs' = [obs EXCEPT !.steps = <<"e_step">>, !.e_iter = iter, !.e_params = params,
                          !.n_e = @ + 1, !.e_calls = @ + 1]
    /\ pc' = "lm_append"
    /\ UNCHANGED <<self, params, samples, call, iter, prev_cost, err, ret, twin, disk>>

NextCC == CC_EStep \/ LM_Append \/ LM_ConvTest \/ LM_MStep \/ LM_Return

SpecCC == InitCC /\ [][NextCC]_vars

\* the smaller of two numbers
Min(a, b) == IF a < b THEN a ELSE b

\* C30: with use_cc = True the convergence test does not stop the loop in
\* its first iteration, whatever the tolerance and the first log-evidence
\* are, and does not stop it at all on a NaN log-evidence (nor after one);
\* so when the loop is left at least min(2, num_iter) E-steps and at least
\* min(1, num_iter) M-steps have run.
C30_NoStopInFirstIteration ==
    /\ [](call.use_cc
          => (/\ obs.broke => (iter >= 1 /\ ~IsNaN(e_out.pX) /\ ~IsNaN(prev_cost))
              /\ pc \in {"lm_return", "returned", "raised"}
                 => (/\ obs.n_e >= Min(2, call.num_iter)
                     /\ obs.n_m >= Min(1, call.num_iter))))
    /\ [][(pc = "lm_cc" /\ (iter = 0 \/ IsNaN(e_out.pX) \/ IsNaN(prev_cost)))
            => (pc' = "lm_mstep" /\ ~obs'.broke /\ prev_cost' = e_out.pX)]_vars

\* The convergence test of a first iteration let the loop go on to the
\* M-step, with the tolerance +inf and a finite first log-evidence.
C30_Witness ==
    /\ pc = "lm_mstep" /\ call.use_cc /\ iter = 0
    /\ obs.steps = <<"e_step", "append", "cc">> /\ ~obs.broke
    /\ call.cc = PInf /\ IsReal(e_out.pX) /\ e_out.pX # Log(Zero)
    /\ prev_cost = e_out.pX

=============================================================================
